---- MODULE Spec2Model ----
(***************************************************************************)
(* The software renderer of livesplit-core (src/rendering/software.rs):    *)
(* BorrowedRenderer::render with its cached background surface, the        *)
(* two-frame dirty span and the background blur cache.                     *)
(*                                                                         *)
(* Pixmaps are sequences of pixels (4 bytes each, row-major, `stride`      *)
(* pixels per row).  A pixel's value is the sequence of paints that were   *)
(* blended into it since it was last overwritten: <<>> is the all-zero     *)
(* pixel, a Source-mode fill replaces the sequence, every other paint      *)
(* appends to it.  Coordinates are fixed-point, SubPixel units per pixel.  *)
(*                                                                         *)
(* SkiaAllocator::create_image is modelled on the bytes of one decoded     *)
(* pixel, with the widths of the integers it computes in.  The layout      *)
(* parsing functions of the C API (capi/src/layout.rs) are modelled on     *)
(* documents of a few bytes.                                               *)
(***************************************************************************)
EXTENDS Integers, Sequences, FiniteSets, TLC

\* ------------------------------------------------------------------ bounds
MaxStride == 2
MaxHeight == 3
SubPixel == 2
NumImages == 2
MaxBlur == 2
MaxDocLen == 2
MaxLayouts == 2
MaxCallbacks == 3

\* ------------------------------------------------------- program constants
INFINITY == 1000000
NEG_INFINITY == -INFINITY
BYTES_PER_PIXEL == 4
SHADOW_OFFSET == 1
U8_MAX == 255
U16_MODULUS == 65536
BLUR_FACTOR_NUM == 1
BLUR_FACTOR_DEN == 20
SIGMA_WHEN_SCALED == 2

VARIABLES
    background,                 \* BorrowedRenderer.background: the cached background surface
    min_y, max_y,               \* BorrowedRenderer.min_y / max_y: the previous frame's span
    blurred_background_image,   \* BorrowedRenderer.blurred_background_image: <<>> or <<[key, pixmap]>>
    scene,                      \* the Scene held by BorrowedRenderer.scene_manager
    image,                      \* the caller's output buffer
    call,                       \* what the last operation was and what it did
    decoded,                    \* create_image: a pixel of the decoded image buffer
    capi,                       \* C API: the last layout call and the layouts the caller owns
    hook                        \* livesplit-hotkey: the Hook, its registry and its threads

vars == <<background, min_y, max_y, blurred_background_image, scene, image, call, decoded,
          capi, hook>>
renderer_vars == <<background, min_y, max_y, blurred_background_image, scene, image, call>>

\* ---------------------------------------------------------------- helpers
Min(a, b) == IF a <= b THEN a ELSE b
Max(a, b) == IF a >= b THEN a ELSE b

Px(n) == n * SubPixel
Half == SubPixel \div 2

\* `x as usize` of an f32: truncation toward zero, saturating at 0.
AsUsize(v) == IF v <= 0 THEN 0 ELSE v \div SubPixel

Row(p, w) == (p - 1) \div w
Col(p, w) == (p - 1) % w

\* Pixmap::new(width, height): zero-filled.
Pixmap_new(w, h) == [w |-> w, h |-> h, data |-> [p \in 1..(w * h) |-> <<>>]]

Paint(tag, id, a, b) == [tag |-> tag, id |-> id, a |-> a, b |-> b]

\* ------------------------------------------------------------- transforms
Transform(sx, sy, x, y) == [scale_x |-> sx, scale_y |-> sy, x |-> x, y |-> y]
Identity == Transform(1, 1, 0, 0)

transform_x(t, x) == x * t.scale_x + t.x
transform_y(t, y) == y * t.scale_y + t.y

pre_translate(t, dx, dy) ==
    [t EXCEPT !.x = t.x + t.scale_x * dx, !.y = t.y + t.scale_y * dy]

pre_scale(t, sx, sy) ==
    [t EXCEPT !.scale_x = t.scale_x * sx, !.scale_y = t.scale_y * sy]

Box(l, t, r, b) == [left |-> l, top |-> t, right |-> r, bottom |-> b]

\* Scene::rectangle: the unit square path.
rectangle == Box(0, 0, SubPixel, SubPixel)

TransformBox(t, box) ==
    Box(transform_x(t, box.left), transform_y(t, box.top),
        transform_x(t, box.right), transform_y(t, box.bottom))

\* The rasterizer touches pixel (r, c) when the shape overlaps it.
Covers(box, r, c) ==
    /\ box.left < Px(c + 1) /\ box.right > Px(c)
    /\ box.top < Px(r + 1) /\ box.bottom > Px(r)
\* --------------------------------------------------------------- entities
\* Option<T> is <<>> (None) or <<v>> (Some(v)).
SolidColor(alpha) == [kind |-> "SolidColor", a1 |-> alpha, a2 |-> alpha]
VerticalGradient(a1, a2) == [kind |-> "VerticalGradient", a1 |-> a1, a2 |-> a2]
HorizontalGradient(a1, a2) == [kind |-> "HorizontalGradient", a1 |-> a1, a2 |-> a2]

Glyph(path, x, y, scale, color) ==
    [path |-> path, x |-> x, y |-> y, scale |-> scale, color |-> color]

Entity(kind, id, path, width, shader, shadow, glyphs, t) ==
    [kind |-> kind, id |-> id, path |-> path, width |-> width, shader |-> shader,
     shadow |-> shadow, glyphs |-> glyphs, transform |-> t]

FillPath(id, path, shader, t) == Entity("FillPath", id, path, 0, shader, <<>>, <<>>, t)
StrokePath(id, path, width, t) == Entity("StrokePath", id, path, width, SolidColor(100), <<>>, <<>>, t)
ImageEntity(id, t) == Entity("Image", id, <<>>, 0, SolidColor(100), <<>>, <<>>, t)
Label(id, glyphs, shader, shadow, t) == Entity("Label", id, <<>>, 0, shader, shadow, glyphs, t)

\* ------------------------------------------------------- calculate_bounds
\* One `min_y = min_y.min(lo); max_y = max_y.max(hi)` step on acc = <<min_y, max_y>>.
Extend(acc, lo, hi) == <<Min(acc[1], lo), Max(acc[2], hi)>>

\* for y in [bounds.top(), bounds.bottom()] { ... transform.transform_y(y) ... }
PathBounds(acc, box, t, radius) ==
    Extend(Extend(acc, transform_y(t, box.top) - radius, transform_y(t, box.top) + radius),
           transform_y(t, box.bottom) - radius, transform_y(t, box.bottom) + radius)

GlyphTransform(t, glyph) ==
    pre_scale(pre_translate(t, glyph.x, glyph.y), glyph.scale, glyph.scale)

RECURSIVE GlyphsBounds(_, _, _)
GlyphsBounds(acc, glyphs, t) ==
    IF glyphs = <<>> THEN acc
    ELSE LET glyph == Head(glyphs)
             next == IF glyph.path = <<>> THEN acc
                     ELSE PathBounds(acc, glyph.path[1], GlyphTransform(t, glyph), 0)
         IN GlyphsBounds(next, Tail(glyphs), t)

\* A path that failed to build counted as an empty path at the origin.
EntityBounds_NullAtOrigin(acc, e) ==
    CASE e.kind = "FillPath" ->
            PathBounds(acc, IF e.path = <<>> THEN Box(0, 0, 0, 0) ELSE e.path[1], e.transform, 0)
      [] e.kind = "StrokePath" ->
            PathBounds(acc, IF e.path = <<>> THEN Box(0, 0, 0, 0) ELSE e.path[1], e.transform,
                       e.transform.scale_y * e.width)
      [] e.kind = "Image" ->
            PathBounds(acc, rectangle, e.transform, 0)
      [] e.kind = "Label" ->
            LET shadowed == IF e.shadow = <<>> THEN acc
                            ELSE GlyphsBounds(acc, e.glyphs,
                                     pre_translate(e.transform, SHADOW_OFFSET, SHADOW_OFFSET))
            IN GlyphsBounds(shadowed, e.glyphs, e.transform)

EntityBounds(acc, e) ==
    CASE e.kind = "FillPath" ->
            IF e.path = <<>> THEN acc ELSE PathBounds(acc, e.path[1], e.transform, 0)
      [] e.kind = "StrokePath" ->
            IF e.path = <<>> THEN acc
            ELSE PathBounds(acc, e.path[1], e.transform, e.transform.scale_y * e.width)
      [] e.kind = "Image" ->
            PathBounds(acc, rectangle, e.transform, 0)
      [] e.kind = "Label" ->
            LET shadowed == IF e.shadow = <<>> THEN acc
                            ELSE GlyphsBounds(acc, e.glyphs,
                                     pre_translate(e.transform, SHADOW_OFFSET, SHADOW_OFFSET))
            IN GlyphsBounds(shadowed, e.glyphs, e.transform)

RECURSIVE BoundsFrom(_, _)
BoundsFrom(acc, layer) ==
    IF layer = <<>> THEN acc ELSE BoundsFrom(EntityBounds(acc, Head(layer)), Tail(layer))

\* The accumulator started at row 0 instead of the empty range.
calculate_bounds_FromZero(layer) == BoundsFrom(<<0, 0>>, layer)

calculate_bounds(layer) == BoundsFrom(<<INFINITY, NEG_INFINITY>>, layer)

\* ----------------------------------------------------------- render_layer
\* What stroke_path covers: the path widened by half the stroke width on each side.
StrokeBox(box, width, t) ==
    LET b == TransformBox(t, box)
    IN Box(b.left - (t.scale_x * width) \div 2, b.top - (t.scale_y * width) \div 2,
           b.right + (t.scale_x * width) \div 2, b.bottom + (t.scale_y * width) \div 2)

\* A colour: what it is (rgb) and its alpha in percent. A FillShader's own colours
\* have rgb 0.
Color(rgb, a) == [rgb |-> rgb, a |-> a]

\* tiny-skia's Color::apply_opacity: the alpha multiplied by the opacity.
apply_opacity(color, opacity) == [color EXCEPT !.a = (@ * opacity) \div 100]

IsFinite(v) == NEG_INFINITY < v /\ v < INFINITY

\* tiny-skia's LinearGradient::new(start, end, stops, SpreadMode::Pad, identity): None
\* when the distance between the points is not finite, the solid colour of the last
\* stop when it is zero, the gradient otherwise.
LinearGradient_new(start, end, c1, c2) ==
    IF \E i \in 1..2 : ~IsFinite(start[i]) \/ ~IsFinite(end[i])
    THEN <<>>
    ELSE IF start = end
    THEN <<[kind |-> "SolidColor", color |-> c2]>>
    ELSE <<[kind |-> "LinearGradient", start |-> start, end |-> end, stops |-> <<c1, c2>>]>>

\* convert_shader: the tiny-skia shader as an Option (None: the `.unwrap()` aborts),
\* and which of the two bounds closures was called.
convert_shader(shader, top_bottom, left_right) ==
    CASE shader.kind = "SolidColor" ->
            [shader |-> <<[kind |-> "SolidColor", color |-> Color(0, shader.a1)]>>,
             called |-> "none"]
      [] shader.kind = "VerticalGradient" ->
            [shader |-> LinearGradient_new(<<0, top_bottom[1]>>, <<0, top_bottom[2]>>,
                                           Color(0, shader.a1), Color(0, shader.a2)),
             called |-> "calculate_top_bottom"]
      [] shader.kind = "HorizontalGradient" ->
            [shader |-> LinearGradient_new(<<left_right[1], 0>>, <<left_right[2], 0>>,
                                           Color(0, shader.a1), Color(0, shader.a2)),
             called |-> "calculate_left_right"]

\* for glyph in label.glyphs() { if let Some(path) = &glyph.path { min / max } }
RECURSIVE GlyphsExtent(_, _, _)
GlyphsExtent(acc, glyphs, axis) ==
    IF glyphs = <<>> THEN acc
    ELSE LET glyph == Head(glyphs)
             next == IF glyph.path = <<>> THEN acc
                     ELSE IF axis = "y"
                     THEN Extend(acc, glyph.path[1].top, glyph.path[1].bottom)
                     ELSE Extend(acc, glyph.path[1].left, glyph.path[1].right)
         IN GlyphsExtent(next, Tail(glyphs), axis)

\* The extent kept as it is when no glyph has an outline.
LabelBounds_Unchecked(glyphs, axis) ==
    GlyphsExtent(<<INFINITY, NEG_INFINITY>>, glyphs, axis)

\* The label closures handed to convert_shader: if bottom < top { [0.0, 0.0] }.
LabelBounds(glyphs, axis) ==
    LET extent == GlyphsExtent(<<INFINITY, NEG_INFINITY>>, glyphs, axis)
    IN IF extent[2] < extent[1] THEN <<0, 0>> ELSE extent

\* let paint = convert_shader(shader, label, ..)
LabelPaint(e) ==
    convert_shader(e.shader, LabelBounds(e.glyphs, "y"), LabelBounds(e.glyphs, "x"))

\* The alpha of the first colour only.
ShadowAlpha_FirstStop(shader) == shader.a1

\* let alpha = match shader { .. }
ShadowAlpha(shader) ==
    IF shader.kind = "SolidColor" THEN shader.a1 ELSE (shader.a1 + shader.a2) \div 2

\* Shader::SolidColor(color) of the shadow pass.
ShadowShader(e) ==
    [kind |-> "SolidColor", color |-> apply_opacity(e.shadow[1], ShadowAlpha(e.shader))]

\* let transform = transform.pre_translate(SHADOW_OFFSET, SHADOW_OFFSET)
ShadowTransform(t) == pre_translate(t, SHADOW_OFFSET, SHADOW_OFFSET)

\* The paints one glyph pass of a label blends into pixel (r, c): the pass paints
\* with `shader`, the second pass with the glyph's own colour where it has one.
RECURSIVE GlyphsPaints(_, _, _, _, _, _, _, _)
GlyphsPaints(tag, id, glyphs, n, t, shader, r, c) ==
    IF n > Len(glyphs) THEN <<>>
    ELSE LET glyph == glyphs[n]
             override == tag = "glyph" /\ glyph.color # <<>>
             here == IF glyph.path # <<>>
                        /\ Covers(TransformBox(GlyphTransform(t, glyph), glyph.path[1]), r, c)
                     THEN <<[tag |-> tag, id |-> id, a |-> n,
                             b |-> IF override THEN glyph.color[1].rgb ELSE 0,
                             shader |-> IF override
                                        THEN [kind |-> "SolidColor", color |-> glyph.color[1]]
                                        ELSE shader]>>
                     ELSE <<>>
         IN here \o GlyphsPaints(tag, id, glyphs, n + 1, t, shader, r, c)

\* Each glyph's shadow painted just before the glyph itself.
RECURSIVE InterleavedPaints(_, _, _, _)
InterleavedPaints(e, n, r, c) ==
    IF n > Len(e.glyphs) THEN <<>>
    ELSE GlyphsPaints("shadow", e.id, <<e.glyphs[n]>>, 1, ShadowTransform(e.transform),
                      ShadowShader(e), r, c)
         \o GlyphsPaints("glyph", e.id, <<e.glyphs[n]>>, 1, e.transform,
                         LabelPaint(e).shader[1], r, c)
         \o InterleavedPaints(e, n + 1, r, c)

\* One pass over the glyphs, shadow and glyph together.
LabelPaints_Interleaved(e, r, c) == InterleavedPaints(e, 1, r, c)

\* What the two passes of a label blend into pixel (r, c).
LabelPaints(e, r, c) ==
    (IF e.shadow = <<>> THEN <<>>
     ELSE GlyphsPaints("shadow", e.id, e.glyphs, 1, ShadowTransform(e.transform),
                       ShadowShader(e), r, c))
    \o GlyphsPaints("glyph", e.id, e.glyphs, 1, e.transform, LabelPaint(e).shader[1], r, c)

\* The paints one entity blends into pixel (r, c) of the canvas.
EntityPaints(e, r, c) ==
    CASE e.kind = "FillPath" ->
            IF e.path # <<>> /\ Covers(TransformBox(e.transform, e.path[1]), r, c)
            THEN <<Paint("fill", e.id, 0, 0)>> ELSE <<>>
      [] e.kind = "StrokePath" ->
            IF e.path # <<>> /\ Covers(StrokeBox(e.path[1], e.width, e.transform), r, c)
            THEN <<Paint("stroke", e.id, 0, 0)>> ELSE <<>>
      [] e.kind = "Image" ->
            IF Covers(TransformBox(e.transform, rectangle), r, c)
            THEN <<Paint("image", e.id, 0, 0)>> ELSE <<>>
      [] e.kind = "Label" -> LabelPaints(e, r, c)

\* The entity's convert_shader unwraps None.
ShaderPanics(e) ==
    \/ e.kind = "Label" /\ LabelPaint(e).shader = <<>>
    \/ /\ e.kind = "FillPath" /\ e.path # <<>>
       /\ convert_shader(e.shader, <<e.path[1].top, e.path[1].bottom>>,
                         <<e.path[1].left, e.path[1].right>>).shader = <<>>

\* render_layer aborts at one of the layer's entities.
LayerPanics(layer) == \E i \in 1..Len(layer) : ShaderPanics(layer[i])

RECURSIVE LayerPaints(_, _, _)
LayerPaints(layer, r, c) ==
    IF layer = <<>> THEN <<>>
    ELSE EntityPaints(Head(layer), r, c) \o LayerPaints(Tail(layer), r, c)

\* for entity in layer { ... }: every entity in order, alpha-over, clipped to the canvas.
render_layer(canvas, layer) ==
    [canvas EXCEPT !.data =
        [p \in 1..Len(canvas.data) |->
            canvas.data[p] \o LayerPaints(layer, Row(p, canvas.w), Col(p, canvas.w))]]

\* ------------------------------------------------- background and its blur
\* settings::BackgroundImage<T>; `image` is the decoded image (its id) or, in a key, the id.
BackgroundImage(img, brightness, opacity, blur) ==
    [image |-> img, brightness |-> brightness, opacity |-> opacity, blur |-> blur]

NoImage == BackgroundImage(0, 100, 100, 0)

\* The layout's background setting: none, a shader or an image.
NoBackground == [kind |-> "None", shader |-> SolidColor(100), image |-> NoImage]
ShaderBackground(shader) == [kind |-> "Shader", shader |-> shader, image |-> NoImage]
ImageBackground(img) == [kind |-> "Image", shader |-> SolidColor(100), image |-> img]

\* The decoded images' sizes, <<width, height>>, by image id.
ImageSizes == << <<100, 1>>, <<60, 30>> >>
ImageSize(img) == ImageSizes[((img - 1) % Len(ImageSizes)) + 1]

\* A blur setting b stands for the fraction b / MaxBlur of the full blur, and
\* BLUR_FACTOR is BLUR_FACTOR_NUM / BLUR_FACTOR_DEN; sigma is kept as the fraction
\* <<numerator, denominator>>.
\* let sigma = BLUR_FACTOR * image.blur * dim, dim the larger of width and height
Sigma(img, blur) ==
    <<BLUR_FACTOR_NUM * blur * Max(ImageSize(img)[1], ImageSize(img)[2]),
      BLUR_FACTOR_DEN * MaxBlur>>

\* if scale < 1.0, with scale = SIGMA_WHEN_SCALED / sigma
ScalesDown(sigma) == SIGMA_WHEN_SCALED * sigma[2] < sigma[1]

\* `(scale * d as f32) as u32`: truncated, and 0 for a negative product.
Truncated(sigma, d) ==
    IF sigma[1] <= 0 THEN 0 ELSE (SIGMA_WHEN_SCALED * sigma[2] * d) \div sigma[1]

\* The scaled side without its lower limit.
ScaledSide_Unclamped(sigma, d) == Truncated(sigma, d)

\* ((scale * d as f32) as u32).max(1)
ScaledSide(sigma, d) == Max(Truncated(sigma, d), 1)

\* The image resized when scale < 1 and then blurred: the size of the result and the
\* sigma it was blurred with.
BlurredSize(img, blur) ==
    LET sigma == Sigma(img, blur)
    IN IF ScalesDown(sigma)
       THEN [width |-> ScaledSide(sigma, ImageSize(img)[1]),
             height |-> ScaledSide(sigma, ImageSize(img)[2]),
             sigma |-> <<SIGMA_WHEN_SCALED, 1>>]
       ELSE [width |-> ImageSize(img)[1], height |-> ImageSize(img)[2], sigma |-> sigma]

\* A pixmap by what it was computed from: blur = 0 is the decoded image itself.
PixmapOf(img, blur) ==
    LET size == IF blur = 0
                THEN [width |-> ImageSize(img)[1], height |-> ImageSize(img)[2],
                      sigma |-> <<0, 1>>]
                ELSE BlurredSize(img, blur)
    IN [image |-> img, blur |-> blur, width |-> size.width, height |-> size.height,
        sigma |-> size.sigma]

\* `&current_key == key`: both are BackgroundImage<usize>, the background image
\* with its image replaced by the image's id, compared field by field.
KeyEq(current_key, key) == current_key = key

\* image::imageops::blur of the (possibly downscaled) decoded image.
BlurredPixmap(img) == PixmapOf(img.image, img.blur)

\* The cache is filled once and never compared again.
update_blurred_background_image_Stale(bg, cache) ==
    IF bg # <<>> /\ bg[1].kind = "Image" /\ bg[1].image.blur # 0
    THEN IF cache = <<>>
         THEN [cache |-> <<[key |-> bg[1].image, pixmap |-> BlurredPixmap(bg[1].image)]>>,
               recomputed |-> "computed"]
         ELSE [cache |-> cache, recomputed |-> "reused"]
    ELSE [cache |-> <<>>, recomputed |-> "none"]

\* The `_ =>` arm leaves the cache as it is.
update_blurred_background_image_Keep(bg, cache) ==
    IF bg # <<>> /\ bg[1].kind = "Image" /\ bg[1].image.blur # 0
    THEN LET current_key == bg[1].image
         IN IF ~(cache # <<>> /\ KeyEq(current_key, cache[1].key))
            THEN [cache |-> <<[key |-> current_key, pixmap |-> BlurredPixmap(bg[1].image)]>>,
                  recomputed |-> IF cache = <<>> THEN "computed" ELSE "replaced"]
            ELSE [cache |-> cache, recomputed |-> "reused"]
    ELSE [cache |-> cache, recomputed |-> "none"]

\* update_blurred_background_image: the new cache, and what happened to it: the blur
\* was computed into an empty cache ("computed"), computed over an older entry
\* ("replaced"), kept ("reused"), an entry was dropped ("cleared"), or an empty cache
\* was left empty ("none").
update_blurred_background_image(bg, cache) ==
    IF bg # <<>> /\ bg[1].kind = "Image" /\ bg[1].image.blur # 0
    THEN LET current_key == bg[1].image
         IN IF ~(cache # <<>> /\ KeyEq(current_key, cache[1].key))
            THEN [cache |-> <<[key |-> current_key, pixmap |-> BlurredPixmap(bg[1].image)]>>,
                  recomputed |-> IF cache = <<>> THEN "computed" ELSE "replaced"]
            ELSE [cache |-> cache, recomputed |-> "reused"]
    ELSE [cache |-> <<>>, recomputed |-> IF cache = <<>> THEN "none" ELSE "cleared"]

\* `blurred_background_image.as_ref().map(..).unwrap()` on an empty cache.
FillPanics(bg, cache) ==
    bg # <<>> /\ bg[1].kind = "Image" /\ bg[1].image.blur # 0 /\ cache = <<>>

\* The decoded image painted whatever the blur.
BackgroundPixmap_Original(img, cache) == PixmapOf(img.image, 0)

\* The pixmap an image background is painted from.
BackgroundPixmap(img, cache) ==
    IF img.blur # 0 THEN cache[1].pixmap ELSE PixmapOf(img.image, 0)

\* What fill_background leaves in pixel (r, c), which held `old`.
FilledPixel(bg, cache, old, r, c, width, height) ==
    IF bg = <<>> THEN <<>>
    ELSE LET b == bg[1]
             inside == Covers(Box(0, 0, Px(width), Px(height)), r, c)
         IN CASE b.kind = "Shader" /\ b.shader.kind = "SolidColor" ->
                    <<Paint("bg_solid", 0, 0, 0)>>
              [] b.kind = "Shader" /\ b.shader.kind = "VerticalGradient" ->
                    IF inside THEN <<Paint("bg_vertical", 0, height, 0)>> ELSE old
              [] b.kind = "Shader" /\ b.shader.kind = "HorizontalGradient" ->
                    IF inside THEN <<Paint("bg_horizontal", 0, width, 0)>> ELSE old
              [] b.kind = "Image" ->
                    IF Covers(TransformBox(b.transform, rectangle), r, c)
                    THEN LET pixmap == BackgroundPixmap(b.image, cache)
                         IN <<Paint("bg_image", pixmap.image, pixmap.blur, b.image.opacity)>>
                            \o (IF b.image.brightness # 100
                                THEN <<Paint("modulate", 0, b.image.brightness, 0)>>
                                ELSE <<>>)
                    ELSE old

fill_background(bg, cache, background_layer, width, height) ==
    [background_layer EXCEPT !.data =
        [p \in 1..Len(background_layer.data) |->
            FilledPixel(bg, cache, background_layer.data[p],
                        Row(p, background_layer.w), Col(p, background_layer.w), width, height)]]

\* ------------------------------------------------------------ scene manager
Layout(top, bottom, bg) == [top |-> top, bottom |-> bottom, background |-> bg]

\* Scene::background(): the setting with the transform that stretches it over the viewport.
SceneBackground(bg, width, height) ==
    IF bg.kind = "None" THEN <<>>
    ELSE <<[kind |-> bg.kind, shader |-> bg.shader, image |-> bg.image,
            transform |-> Transform(width, height, 0, 0)]>>

\* SceneManager::update_scene: the scene of this frame; the bottom layer changed
\* exactly when something that affects it differs from the previous frame.
update_scene(sc, layout, width, height) ==
    LET bg == SceneBackground(layout.background, width, height)
    IN [updated |-> TRUE,
        bottom_layer |-> layout.bottom,
        top_layer |-> layout.top,
        background |-> bg,
        resolution |-> <<width, height>>,
        bottom_layer_changed |->
            \/ ~sc.updated
            \/ sc.bottom_layer # layout.bottom
            \/ sc.background # bg
            \/ sc.resolution # <<width, height>>]

\* ------------------------------------------------------------------ render
\* The bottom layer painted first and the fill last.
RepaintBackground_FillLast(bg, cache, surface, bottom_layer, width, height) ==
    fill_background(bg, cache, render_layer(surface, bottom_layer), width, height)

\* fill_background(scene, .., &mut background, ..); render_layer(&mut background, bottom_layer)
RepaintBackground(bg, cache, surface, bottom_layer, width, height) ==
    render_layer(fill_background(bg, cache, surface, width, height), bottom_layer)

\* if stride != self.background.width() || height != self.background.height()
Reallocates(surface, stride, height) == stride # surface.w \/ height # surface.h

\* The background repainted on every forced call as well.
Repaints_WhenForced(force_redraw, bottom_layer_changed) ==
    force_redraw \/ bottom_layer_changed

\* The whole surface copied in every call.
FullCopy_Always(force_redraw, bottom_layer_changed) == TRUE

\* The whole surface copied only when the bottom layer changed.
FullCopy_OnChangeOnly(force_redraw, bottom_layer_changed) == bottom_layer_changed

\* The copy started below the span's first row instead of one row above it.
PartialStart_Below(lo, stride) == BYTES_PER_PIXEL * stride * AsUsize(lo + Px(1))

\* The whole surface copied only in a forced call.
FullCopy_ForcedOnly(force_redraw, bottom_layer_changed) == force_redraw

\* The hint swallowed.
RenderResult_None(new_resolution) == <<>>

\* if bottom_layer_changed { fill_background(..); render_layer(&mut background, ..) }
Repaints(force_redraw, bottom_layer_changed) == bottom_layer_changed

\* if force_redraw || bottom_layer_changed
FullCopy(force_redraw, bottom_layer_changed) == force_redraw \/ bottom_layer_changed

\* stride * (min_y - 1.0) as usize, in bytes
PartialStart(lo, stride) == BYTES_PER_PIXEL * stride * AsUsize(lo - Px(1))

\* stride * ((max_y + 2.0) as usize).min(height), in bytes
PartialEnd(hi, stride, height) == BYTES_PER_PIXEL * stride * Min(AsUsize(hi + Px(2)), height)

\* The previous frame's span forgotten.
MergedSpan_CurrentOnly(prev_min, prev_max, cur) == cur

\* mem::replace(&mut self.min_y, min_y).min(min_y), and the same for max_y
MergedSpan(prev_min, prev_max, cur) == <<Min(prev_min, cur[1]), Max(prev_max, cur[2])>>

\* The byte range of the background copied into the frame buffer.
CopyRange(force_redraw, bottom_layer_changed, span, stride, height) ==
    IF FullCopy(force_redraw, bottom_layer_changed)
    THEN [kind |-> "full", start |-> 0, end |-> BYTES_PER_PIXEL * stride * height]
    ELSE IF span[1] <= span[2]
    THEN [kind |-> "partial", start |-> PartialStart(span[1], stride),
          end |-> PartialEnd(span[2], stride, height)]
    ELSE [kind |-> "none", start |-> 0, end |-> 0]

\* data[start..end] with start > end or end > len panics.
SlicePanics(copy, len) == copy.start > copy.end \/ copy.end > len

\* Pixel p (1-based) lies in the byte range.
InRange(copy, p) ==
    copy.start <= BYTES_PER_PIXEL * (p - 1) /\ BYTES_PER_PIXEL * p <= copy.end

copy_from_slice(frame_buffer, surface, copy) ==
    [frame_buffer EXCEPT !.data =
        [p \in 1..Len(frame_buffer.data) |->
            IF InRange(copy, p) THEN surface.data[p] ELSE frame_buffer.data[p]]]

\* Both layers painted onto the frame buffer.
FrameLayer_Both(sc) == sc.bottom_layer \o sc.top_layer

\* The layer render paints onto the frame buffer.
FrameLayer(sc) == sc.top_layer

\* The value render returns.
RenderResult(new_resolution) == new_resolution

NoCopy == [kind |-> "none", start |-> 0, end |-> 0]

\* What the last operation was: its inputs (size = <<width, height, stride>>), what it
\* returned, what it did, and the unwrap or index it aborted in.
CallRecord(kind, size, force_redraw, new_resolution, ret, repeated, realloc, copy, recomputed, panic) ==
    [kind |-> kind, size |-> size, force_redraw |-> force_redraw,
     new_resolution |-> new_resolution, ret |-> ret, repeated |-> repeated,
     reallocated |-> realloc, copy |-> copy, recomputed |-> recomputed, panic |-> panic]

Idle(kind) ==
    CallRecord(kind, <<0, 0, 0>>, FALSE, <<>>, <<>>, FALSE, FALSE, NoCopy, "none", "none")

\* The frame has the layout and resolution of the frame before it.
SameFrame(old, new) ==
    /\ old.updated
    /\ new.top_layer = old.top_layer
    /\ new.bottom_layer = old.bottom_layer
    /\ new.background = old.background
    /\ new.resolution = old.resolution

\* No size is refused.
SizeRefused_Never(width, height) == FALSE

\* IntSize::from_wh(width, height) is None: PixmapMut::from_bytes(..).unwrap() and
\* Pixmap::new(..).unwrap() abort.
SizeRefused(width, height) == width = 0 \/ height = 0

\* BorrowedRenderer::render on the buffer `frame` (stride frame.w, height frame.h,
\* visible width frame.width); new_resolution is what update_scene returns.
RenderInto(frame, layout, force_redraw, new_resolution) ==
    /\ call.kind # "panicked"
    /\ LET stride == frame.w
           height == frame.h
           width == frame.width
           size == <<width, height, stride>>
           realloc == Reallocates(background, stride, height)
           surface == IF realloc THEN Pixmap_new(stride, height) ELSE background
           sc == update_scene(scene, layout, width, height)
           changed == sc.bottom_layer_changed
           repaints == Repaints(force_redraw, changed)
           blur == IF repaints
                   THEN update_blurred_background_image(sc.background, blurred_background_image)
                   ELSE [cache |-> blurred_background_image, recomputed |-> "none"]
           fill_panics == repaints /\ FillPanics(sc.background, blur.cache)
           bottom_panics == repaints /\ ~fill_panics /\ LayerPanics(sc.bottom_layer)
           painted == IF repaints /\ ~fill_panics
                      THEN IF bottom_panics
                           THEN fill_background(sc.background, blur.cache, surface,
                                                width, height)
                           ELSE RepaintBackground(sc.background, blur.cache, surface,
                                                  sc.bottom_layer, width, height)
                      ELSE surface
           cur == calculate_bounds(sc.top_layer)
           span == MergedSpan(min_y, max_y, cur)
           copy == CopyRange(force_redraw, changed, span, stride, height)
           slice_panics == SlicePanics(copy, BYTES_PER_PIXEL * Len(frame.data))
           repeated == call.kind = "render" /\ ~force_redraw /\ SameFrame(scene, sc)
       IN /\ UNCHANGED <<decoded, capi, hook>>
          /\ IF SizeRefused(stride, height)
             THEN /\ UNCHANGED <<scene, blurred_background_image, background, min_y, max_y>>
                  /\ image' = frame
                  /\ call' = CallRecord("panicked", size, force_redraw, new_resolution,
                                        <<>>, FALSE, FALSE, NoCopy, "none", "from_bytes")
             ELSE /\ scene' = sc
                  /\ blurred_background_image' = blur.cache
                  /\ background' = painted
                  /\ IF fill_panics \/ bottom_panics
                     THEN /\ UNCHANGED <<min_y, max_y>>
                          /\ image' = frame
                          /\ call' = CallRecord("panicked", size, force_redraw,
                                                new_resolution, <<>>, repeated, realloc,
                                                NoCopy, blur.recomputed,
                                                IF fill_panics THEN "blur" ELSE "shader")
                     ELSE /\ min_y' = cur[1]
                          /\ max_y' = cur[2]
                          /\ IF slice_panics
                             THEN /\ image' = frame
                                  /\ call' = CallRecord("panicked", size, force_redraw,
                                                        new_resolution, <<>>, repeated,
                                                        realloc, copy, blur.recomputed,
                                                        "slice")
                             ELSE IF LayerPanics(FrameLayer(sc))
                             THEN /\ image' = copy_from_slice(frame, painted, copy)
                                  /\ call' = CallRecord("panicked", size, force_redraw,
                                                        new_resolution, <<>>, repeated,
                                                        realloc, copy, blur.recomputed,
                                                        "shader")
                             ELSE /\ image' = render_layer(
                                                  copy_from_slice(frame, painted, copy),
                                                  FrameLayer(sc))
                                  /\ call' = CallRecord("render", size, force_redraw,
                                                        new_resolution,
                                                        RenderResult(new_resolution),
                                                        repeated, realloc, copy,
                                                        blur.recomputed, "none")

\* BorrowedRenderer::render into the buffer the caller holds.
Render(layout, force_redraw, new_resolution) ==
    RenderInto(image, layout, force_redraw, new_resolution)

\* Renderer::render: the frame buffer is owned, replaced by a zeroed one when the
\* resolution differs from its size, and handed on with stride = width and
\* force_redraw = false.
OwnedRender(layout, width, height, new_resolution) ==
    LET resized == width # image.w \/ height # image.h
        frame_buffer == IF resized
                        THEN [w |-> width, h |-> height, width |-> width, owned |-> TRUE,
                              data |-> Pixmap_new(width, height).data]
                        ELSE image
    IN IF resized /\ SizeRefused(width, height)
       THEN /\ call.kind # "panicked"
            /\ call' = CallRecord("panicked", <<width, height, width>>, FALSE,
                                  new_resolution, <<>>, FALSE, FALSE, NoCopy, "none",
                                  "alloc")
            /\ UNCHANGED <<background, min_y, max_y, blurred_background_image, scene,
                           image, decoded, capi, hook>>
       ELSE RenderInto(frame_buffer, layout, FALSE, new_resolution)

\* The caller hands in another buffer, or the same one with other contents.
SwapBuffer(stride, height, width, fill) ==
    /\ call.kind # "panicked"
    /\ width <= stride
    /\ image' = [w |-> stride, h |-> height, width |-> width, owned |-> FALSE,
                 data |-> [p \in 1..(stride * height) |-> fill]]
    /\ call' = Idle("swap")
    /\ UNCHANGED <<background, min_y, max_y, blurred_background_image, scene, decoded, capi, hook>>

\* ------------------------------------------------------------ create_image
\* The product kept in 8 bits.
MulU16_Narrow(x, y) == (x * y) % (U8_MAX + 1)

\* `*r as u16 * a`: a multiplication of two u16.
MulU16(x, y) == (x * y) % U16_MODULUS

\* `as u8`
AsU8(v) == v % (U8_MAX + 1)

\* ((c as u16 * a) / 255) as u8
Premultiply(c, a) == AsU8(MulU16(c, a) \div U8_MAX)

\* One pass of the premultiplication loop over a pixel [r, g, b, a]; opaque_skip: the
\* build has the `if *a == 0xFF { continue; }` of targets without avx2 / neon.
PremultiplyPixel(px, opaque_skip) ==
    IF opaque_skip /\ px[4] = U8_MAX
    THEN px
    ELSE <<Premultiply(px[1], px[4]), Premultiply(px[2], px[4]),
           Premultiply(px[3], px[4]), px[4]>>

NotDecoded == [stage |-> "none", raw |-> <<0, 0, 0, 0>>, pixel |-> <<0, 0, 0, 0>>]

\* create_image on a buffer that image::load_from_memory(..).to_rgba8() produced.
CreateImage(opaque_skip) ==
    /\ decoded.stage = "raw"
    /\ decoded' = [decoded EXCEPT !.stage = "stored",
                                  !.pixel = PremultiplyPixel(decoded.raw, opaque_skip)]
    /\ UNCHANGED <<renderer_vars, capi, hook>>

\* ------------------------------------------------- C API: layout parsing
Ok(v) == [ok |-> TRUE, value |-> v]
Err == [ok |-> FALSE, value |-> <<>>]

\* simdutf8::basic::from_utf8: the byte 0xFF occurs in no UTF-8 text; the other bytes
\* of the documents here are ASCII.
from_utf8(data) ==
    IF \A i \in 1..Len(data) : data[i] < 128 THEN Ok(data) ELSE Err

\* LayoutSettings::from_json on a reader: here the text `{}` stands for the settings
\* that deserialize, every other document is an error.
from_json(settings) ==
    IF settings = <<123, 125>> THEN Ok([settings |-> settings]) ELSE Err

\* layout::parser::parse on a str: here a text starting with `<` stands for a layout of
\* the original LiveSplit that converts, every other text is an error.
parse(data) ==
    IF Len(data) > 0 /\ data[1] = 60 THEN Ok([original |-> data]) ELSE Err

\* Layout::from_settings
from_settings(settings) == [layout |-> settings]

\* NullableOwnedLayout: None is the null pointer.
None == <<>>
Some(v) == <<v>>

\* if let Ok(settings) = LayoutSettings::from_json(..) { Some(Box::new(..)) } else { None }
Layout_parse_json(settings) ==
    LET r == from_json(settings)
    IN IF r.ok THEN Some(from_settings(r.value)) ELSE None

\* The same on the bytes of the file behind the handle.
Layout_parse_file_handle(file) ==
    LET r == from_json(file)
    IN IF r.ok THEN Some(from_settings(r.value)) ELSE None

\* The bytes handed to the parser without the UTF-8 check.
Layout_parse_original_livesplit_Unchecked(data) ==
    LET l == parse(data)
    IN IF l.ok THEN Some(l.value) ELSE None

\* from_utf8(..).ok()?; Some(Box::new(parser::parse(data).ok()?))
Layout_parse_original_livesplit(data) ==
    LET utf8 == from_utf8(data)
    IN IF ~utf8.ok THEN None
       ELSE LET l == parse(utf8.value)
            IN IF l.ok THEN Some(l.value) ELSE None

NoCapi == [fn |-> "none", input |-> <<>>, result |-> None, owned |-> 0]

\* One of the three parsing functions called on `input`; a layout that is returned is
\* owned by the caller from then on.
ParseLayout(fn, input) ==
    /\ fn = "Layout_parse_json" => from_utf8(input).ok
    /\ LET result == CASE fn = "Layout_parse_json" -> Layout_parse_json(input)
                        [] fn = "Layout_parse_file_handle" -> Layout_parse_file_handle(input)
                        [] fn = "Layout_parse_original_livesplit" ->
                               Layout_parse_original_livesplit(input)
       IN /\ result # None => capi.owned < MaxLayouts
          /\ capi' = [fn |-> fn, input |-> input, result |-> result,
                      owned |-> IF result = None THEN capi.owned ELSE capi.owned + 1]
    /\ UNCHANGED <<renderer_vars, decoded, hook>>

\* Layout_drop(this)
Layout_drop ==
    /\ capi.owned > 0
    /\ capi' = [fn |-> "Layout_drop", input |-> <<>>, result |-> None,
                owned |-> capi.owned - 1]
    /\ UNCHANGED <<renderer_vars, decoded, hook>>

\* ====================================================== livesplit-hotkey, macOS
\* ---------------------------------------------------------------- callback
\* `match key_code { 0x00 => KeyCode::KeyA, .. }`: the hardware key codes the event
\* callback knows, by number.
KeyTable ==
    (0 :> "KeyA") @@ (1 :> "KeyS") @@ (2 :> "KeyD") @@ (3 :> "KeyF") @@ (4 :> "KeyH") @@
    (5 :> "KeyG") @@ (6 :> "KeyZ") @@ (7 :> "KeyX") @@ (8 :> "KeyC") @@ (9 :> "KeyV") @@
    (10 :> "IntlBackslash") @@ (11 :> "KeyB") @@ (12 :> "KeyQ") @@ (13 :> "KeyW") @@
    (14 :> "KeyE") @@ (15 :> "KeyR") @@ (16 :> "KeyY") @@ (17 :> "KeyT") @@ (18 :> "Digit1") @@
    (19 :> "Digit2") @@ (20 :> "Digit3") @@ (21 :> "Digit4") @@ (22 :> "Digit6") @@
    (23 :> "Digit5") @@ (24 :> "Equal") @@ (25 :> "Digit9") @@ (26 :> "Digit7") @@
    (27 :> "Minus") @@ (28 :> "Digit8") @@ (29 :> "Digit0") @@ (30 :> "BracketRight") @@
    (31 :> "KeyO") @@ (32 :> "KeyU") @@ (33 :> "BracketLeft") @@ (34 :> "KeyI") @@
    (35 :> "KeyP") @@ (36 :> "Enter") @@ (37 :> "KeyL") @@ (38 :> "KeyJ") @@ (39 :> "Quote") @@
    (40 :> "KeyK") @@ (41 :> "Semicolon") @@ (42 :> "Backslash") @@ (43 :> "Comma") @@
    (44 :> "Slash") @@ (45 :> "KeyN") @@ (46 :> "KeyM") @@ (47 :> "Period") @@ (48 :> "Tab") @@
    (49 :> "Space") @@ (50 :> "Backquote") @@ (51 :> "Backspace") @@ (52 :> "NumpadEnter") @@
    (53 :> "Escape") @@ (54 :> "MetaRight") @@ (55 :> "MetaLeft") @@ (56 :> "ShiftLeft") @@
    (57 :> "CapsLock") @@ (58 :> "AltLeft") @@ (59 :> "ControlLeft") @@ (60 :> "ShiftRight") @@
    (61 :> "AltRight") @@ (62 :> "ControlRight") @@ (63 :> "Fn") @@ (64 :> "F17") @@
    (65 :> "NumpadDecimal") @@ (67 :> "NumpadMultiply") @@ (69 :> "NumpadAdd") @@
    (71 :> "NumLock") @@ (72 :> "AudioVolumeUp") @@ (73 :> "AudioVolumeDown") @@
    (74 :> "AudioVolumeMute") @@ (75 :> "NumpadDivide") @@ (76 :> "NumpadEnter") @@
    (78 :> "NumpadSubtract") @@ (79 :> "F18") @@ (80 :> "F19") @@ (81 :> "NumpadEqual") @@
    (82 :> "Numpad0") @@ (83 :> "Numpad1") @@ (84 :> "Numpad2") @@ (85 :> "Numpad3") @@
    (86 :> "Numpad4") @@ (87 :> "Numpad5") @@ (88 :> "Numpad6") @@ (89 :> "Numpad7") @@
    (90 :> "F20") @@ (91 :> "Numpad8") @@ (92 :> "Numpad9") @@ (93 :> "IntlYen") @@
    (94 :> "IntlRo") @@ (95 :> "NumpadComma") @@ (96 :> "F5") @@ (97 :> "F6") @@
    (98 :> "F7") @@ (99 :> "F3") @@ (100 :> "F8") @@ (101 :> "F9") @@ (102 :> "Lang2") @@
    (103 :> "F11") @@ (104 :> "Lang1") @@ (105 :> "F13") @@ (106 :> "F16") @@ (107 :> "F14") @@
    (109 :> "F10") @@ (110 :> "ContextMenu") @@ (111 :> "F12") @@ (113 :> "F15") @@
    (114 :> "Insert") @@ (115 :> "Home") @@ (116 :> "PageUp") @@ (117 :> "Delete") @@
    (118 :> "F4") @@ (119 :> "End") @@ (120 :> "F2") @@ (121 :> "PageDown") @@ (122 :> "F1") @@
    (123 :> "ArrowLeft") @@ (124 :> "ArrowRight") @@ (125 :> "ArrowDown") @@
    (126 :> "ArrowUp")

\* The KeyCode of a hardware key code; None where the match falls to `_ => return event`.
\* A key code outside the table taken for the first key of the table.
KeyCodeOf_Default(key_code) ==
    IF key_code \in DOMAIN KeyTable THEN <<KeyTable[key_code]>> ELSE <<KeyTable[0]>>

\* let key_code = match key_code { .. _ => return event }
KeyCodeOf(key_code) ==
    IF key_code \in DOMAIN KeyTable THEN <<KeyTable[key_code]>> ELSE <<>>

\* The four flags the callback reads, the Modifiers they stand for and the keys
\* that are those modifiers themselves.
ModifierFlags ==
    {[flag |-> "SHIFT", modifier |-> "SHIFT", keys |-> {"ShiftLeft", "ShiftRight"}],
     [flag |-> "CONTROL", modifier |-> "CONTROL", keys |-> {"ControlLeft", "ControlRight"}],
     [flag |-> "OPTION", modifier |-> "ALT", keys |-> {"AltLeft", "AltRight"}],
     [flag |-> "COMMAND", modifier |-> "META", keys |-> {"MetaLeft", "MetaRight"}]}

\* Every flag counted, also the one of the key itself.
EventModifiers_AllFlags(modifier_flags, key_code) ==
    {m.modifier : m \in {f \in ModifierFlags : f.flag \in modifier_flags}}

\* if modifier_flags.contains(..) && !matches!(key_code, ..) { modifiers.insert(..) }
EventModifiers(modifier_flags, key_code) ==
    {m.modifier : m \in {f \in ModifierFlags : f.flag \in modifier_flags /\ key_code \notin f.keys}}

\* key_code.with_modifiers(modifiers)
Hotkey(key_code, modifiers) == [key_code |-> key_code, modifiers |-> modifiers]

\* A key-down event as the callback reads it.
Event(autorepeat, key_code, flags) ==
    [autorepeat |-> autorepeat, key_code |-> key_code, flags |-> flags]

\* -------------------------------------------------------------------- Hook
\* The event-tap thread: in the run loop, in the callback before it has the lock
\* ("lock"), or inside the registered callback ("callback"); the event it handled
\* last, the hotkey looked up, what the callback returned ("event" or "null") and the
\* registered callbacks it invoked for that event.
Tap(pc, event, hotkey, ret, invoked) ==
    [pc |-> pc, event |-> event, hotkey |-> hotkey, ret |-> ret, invoked |-> invoked]

\* The thread that calls Hook::register and Hook::unregister: the call it is in or
\* made last, that call's hotkey and callback, and the result once it has returned.
App(pc, op, hotkey, callback, result) ==
    [pc |-> pc, op |-> op, hotkey |-> hotkey, callback |-> callback, result |-> result]

\* Hook::new up to thread::spawn: the channel is empty, the caller is about to wait
\* in recv, the background thread is about to call permission::request. `thread` is
\* the thread's position, `port` and `source` the Core Foundation objects it owns,
\* `stopped` whether CFRunLoopStop was called on its running run loop, `result` what
\* Hook::new returned ("none" while it waits) and `handle` the Hook it returned.
Spawned ==
    [thread |-> "permission", port |-> "none", source |-> "none", tap_enabled |-> FALSE,
     source_added |-> FALSE, stopped |-> FALSE, ran |-> FALSE,
     channel |-> <<>>, sender |-> TRUE, sent |-> 0, result |-> "none", handle |-> "none"]

\* The Hook after Hook::new returned Ok: State { hotkeys: Mutex::new(HashMap::new()) }
\* with the mutex free and the thread in CFRunLoopRun. `callbacks` counts the
\* closures handed to register (callback n is the n-th), `dropped` holds the ones
\* the Hook has dropped.
NewHook ==
    [hotkeys |-> <<>>, lock |-> "none", callbacks |-> 0, dropped |-> {}, resolved |-> <<>>,
     tap |-> Tap("run_loop", <<>>, <<>>, "none", <<>>),
     app |-> App("idle", "none", <<>>, 0, "none"),
     life |-> [Spawned EXCEPT !.thread = "run_loop", !.port = "created",
                              !.source = "created", !.tap_enabled = TRUE,
                              !.source_added = TRUE, !.sender = FALSE, !.sent = 1,
                              !.result = "Ok", !.handle = "alive"]]

\* The callback runs without looking at the registry.
Lookup_Any(hotkeys, hotkey) ==
    IF DOMAIN hotkeys # {} THEN <<hotkeys[CHOOSE h \in DOMAIN hotkeys : TRUE]>> ELSE <<>>

\* hotkeys.get_mut(&hotkey)
Lookup(hotkeys, hotkey) ==
    IF hotkey \in DOMAIN hotkeys THEN <<hotkeys[hotkey]>> ELSE <<>>

\* The entry replaced when the hotkey is taken.
Insert_Overwrite(hotkeys, hotkey, callback) ==
    [h \in DOMAIN hotkeys \cup {hotkey} |-> IF h = hotkey THEN callback ELSE hotkeys[h]]

\* if let Entry::Vacant(vacant) = hotkeys.entry(hotkey) { vacant.insert(..) }
Insert(hotkeys, hotkey, callback) ==
    IF hotkey \in DOMAIN hotkeys THEN hotkeys
    ELSE [h \in DOMAIN hotkeys \cup {hotkey} |-> IF h = hotkey THEN callback ELSE hotkeys[h]]

\* Every entry of the key removed, whatever its modifiers.
Remove_Key(hotkeys, hotkey) ==
    [h \in {k \in DOMAIN hotkeys : k.key_code # hotkey.key_code} |-> hotkeys[h]]

\* hotkeys.remove(&hotkey)
Remove(hotkeys, hotkey) == [h \in DOMAIN hotkeys \ {hotkey} |-> hotkeys[h]]

\* try_resolve: let key_code = match key_code { KeyCode::Backquote => 0x32, .. }
ResolveTable ==
    ("Backquote" :> 50) @@ ("Backslash" :> 42) @@ ("BracketLeft" :> 33) @@
    ("BracketRight" :> 30) @@ ("Comma" :> 43) @@ ("Digit0" :> 29) @@
    ("Digit1" :> 18) @@ ("Digit2" :> 19) @@ ("Digit3" :> 20) @@ ("Digit4" :> 21) @@
    ("Digit5" :> 23) @@ ("Digit6" :> 22) @@ ("Digit7" :> 26) @@ ("Digit8" :> 28) @@
    ("Digit9" :> 25) @@ ("Equal" :> 24) @@ ("IntlBackslash" :> 10) @@
    ("IntlRo" :> 94) @@ ("IntlYen" :> 93) @@ ("KeyA" :> 0) @@ ("KeyB" :> 11) @@
    ("KeyC" :> 8) @@ ("KeyD" :> 2) @@ ("KeyE" :> 14) @@ ("KeyF" :> 3) @@
    ("KeyG" :> 5) @@ ("KeyH" :> 4) @@ ("KeyI" :> 34) @@ ("KeyJ" :> 38) @@
    ("KeyK" :> 40) @@ ("KeyL" :> 37) @@ ("KeyM" :> 46) @@ ("KeyN" :> 45) @@
    ("KeyO" :> 31) @@ ("KeyP" :> 35) @@ ("KeyQ" :> 12) @@ ("KeyR" :> 15) @@
    ("KeyS" :> 1) @@ ("KeyT" :> 17) @@ ("KeyU" :> 32) @@ ("KeyV" :> 9) @@
    ("KeyW" :> 13) @@ ("KeyX" :> 7) @@ ("KeyY" :> 16) @@ ("KeyZ" :> 6) @@
    ("Minus" :> 27) @@ ("Period" :> 47) @@ ("Quote" :> 39) @@ ("Semicolon" :> 41) @@
    ("Slash" :> 44)

\* A key code outside the table resolved as the key with virtual key code 0.
VirtualKeyOf_Any(key_code) ==
    IF key_code \in DOMAIN ResolveTable THEN <<ResolveTable[key_code]>> ELSE <<0>>

\* let key_code = match key_code { .. _ => return None }
VirtualKeyOf(key_code) ==
    IF key_code \in DOMAIN ResolveTable THEN <<ResolveTable[key_code]>> ELSE <<>>

\* Hook::try_resolve. `keyboard` says whether an input source with layout data was
\* found (the current one, or the current layout's after the first had none);
\* `len` is the number of UTF-16 units UCKeyTranslate gave for the virtual key and
\* `utf16` whether they are valid. The String is kept as the virtual key translated.
Hook_try_resolve(key_code, keyboard, len, utf16) ==
    /\ hook.life.handle = "alive"
    /\ hook.app.pc = "idle"
    /\ LET virtual_key == IF keyboard THEN VirtualKeyOf(key_code) ELSE <<>>
           result == IF virtual_key = <<>> \/ len = 0 \/ ~utf16 THEN <<>>
                     ELSE <<[translated |-> virtual_key[1], len |-> len]>>
       IN hook' = [hook EXCEPT !.resolved =
                       <<[key_code |-> key_code, virtual_key |-> virtual_key, result |-> result]>>]
    /\ UNCHANGED <<renderer_vars, decoded, capi>>

\* The mutex taken without waiting for its holder.
Mutex_lock_Unguarded(lock) == TRUE

\* state.hotkeys.lock(): the call returns the guard once no thread holds the mutex.
Mutex_lock(lock) == lock = "none"

\* callback, up to the registry: an auto-repeat and an unknown key code return the
\* event at once; otherwise the hotkey is built and the thread goes for the lock.
KeyDown(event) ==
    /\ hook.life.thread = "run_loop"
    /\ ~hook.life.stopped
    /\ hook.tap.pc = "run_loop"
    /\ LET key_code == KeyCodeOf(event.key_code)
       IN hook' = [hook EXCEPT !.tap =
              IF event.autorepeat # 0 \/ key_code = <<>>
              THEN Tap("run_loop", <<event>>, <<>>, "event", <<>>)
              ELSE Tap("lock", <<event>>,
                       <<Hotkey(key_code[1], EventModifiers(event.flags, key_code[1]))>>,
                       "none", <<>>)]
    /\ UNCHANGED <<renderer_vars, decoded, capi>>

\* state.hotkeys.lock().unwrap().get_mut(..): with the lock, either the registered
\* callback is entered (the guard lives on) or the event is returned.
callback_Lock ==
    /\ hook.tap.pc = "lock"
    /\ Mutex_lock(hook.lock)
    /\ LET found == Lookup(hook.hotkeys, hook.tap.hotkey[1])
       IN hook' = IF found # <<>>
                  THEN [hook EXCEPT !.lock = "tap",
                                    !.tap = Tap("callback", hook.tap.event, hook.tap.hotkey,
                                                "none", <<found[1]>>)]
                  ELSE [hook EXCEPT !.tap = Tap("run_loop", hook.tap.event, hook.tap.hotkey,
                                                "event", <<>>)]
    /\ UNCHANGED <<renderer_vars, decoded, capi>>

\* callback(); null_mut(): the registered callback returns, the guard is dropped.
callback_Return ==
    /\ hook.tap.pc = "callback"
    /\ hook' = [hook EXCEPT !.lock = "none",
                            !.tap = Tap("run_loop", hook.tap.event, hook.tap.hotkey, "null",
                                        hook.tap.invoked)]
    /\ UNCHANGED <<renderer_vars, decoded, capi>>

\* callback(), where the registered closure calls register or unregister of its own
\* Hook: hotkeys.lock() on the thread that holds the guard does not return (it
\* blocks or panics, std::sync::Mutex leaves open which), and the guard stays.
callback_Reenter ==
    /\ hook.tap.pc = "callback"
    /\ hook' = [hook EXCEPT !.tap = Tap("relock", hook.tap.event, hook.tap.hotkey, "none",
                                        hook.tap.invoked)]
    /\ UNCHANGED <<renderer_vars, decoded, capi>>

\* The application calls register with a new closure, or unregister.
Call(op, hotkey) ==
    /\ hook.life.handle = "alive"
    /\ hook.app.pc = "idle"
    /\ op = "register" => hook.callbacks < MaxCallbacks
    /\ hook' = [hook EXCEPT
                    !.callbacks = IF op = "register" THEN @ + 1 ELSE @,
                    !.app = App(op, op, hotkey,
                                IF op = "register" THEN hook.callbacks + 1 ELSE 0, "none")]
    /\ UNCHANGED <<renderer_vars, decoded, capi>>

\* Hook::register, from the moment it has the lock.
Hook_register ==
    /\ hook.app.pc = "register"
    /\ Mutex_lock(hook.lock)
    /\ LET vacant == Lookup(hook.hotkeys, hook.app.hotkey) = <<>>
       IN hook' = [hook EXCEPT
                       !.hotkeys = Insert(@, hook.app.hotkey, hook.app.callback),
                       !.dropped = IF vacant THEN @ ELSE @ \cup {hook.app.callback},
                       !.app = App("idle", "register", hook.app.hotkey, hook.app.callback,
                                   IF vacant THEN "Ok" ELSE "AlreadyRegistered")]
    /\ UNCHANGED <<renderer_vars, decoded, capi>>

\* Hook::unregister, from the moment it has the lock.
Hook_unregister ==
    /\ hook.app.pc = "unregister"
    /\ Mutex_lock(hook.lock)
    /\ LET removed == Lookup(hook.hotkeys, hook.app.hotkey)
       IN hook' = [hook EXCEPT
                       !.hotkeys = Remove(@, hook.app.hotkey),
                       !.dropped = IF removed = <<>> THEN @ ELSE @ \cup {removed[1]},
                       !.app = App("idle", "unregister", hook.app.hotkey, 0,
                                   IF removed = <<>> THEN "NotRegistered" ELSE "Ok")]
    /\ UNCHANGED <<renderer_vars, decoded, capi>>

\* ---------------------------------------------------------------- Hook::new
\* permission::request(), which returns or ends the thread by a panic; the sender is
\* dropped with the thread.
Thread_permission(panics) ==
    /\ hook.life.thread = "permission"
    /\ hook' = [hook EXCEPT !.life.thread = IF panics THEN "ended" ELSE "create_tap",
                            !.life.sender = ~panics]
    /\ UNCHANGED <<renderer_vars, decoded, capi>>

\* CGEventTapCreate, CFMachPortCreateRunLoopSource, CFRunLoopGetCurrent: each either
\* gives its object or gives null, and then the thread sends the step's error.
Thread_create(ok) ==
    /\ hook.life.thread \in {"create_tap", "create_source", "get_run_loop"}
    /\ LET step == hook.life.thread
           error == CASE step = "create_tap" -> "CouldntCreateEventTap"
                      [] step = "create_source" -> "CouldntCreateRunLoopSource"
                      [] step = "get_run_loop" -> "CouldntGetCurrentRunLoop"
       IN hook' = IF ok
                  THEN [hook EXCEPT
                            !.life.thread = CASE step = "create_tap" -> "create_source"
                                              [] step = "create_source" -> "get_run_loop"
                                              [] step = "get_run_loop" -> "send",
                            !.life.port = IF step = "create_tap" THEN "created" ELSE @,
                            !.life.tap_enabled = IF step = "create_tap" THEN TRUE ELSE @,
                            !.life.source = IF step = "create_source" THEN "created" ELSE @]
                  ELSE [hook EXCEPT !.life.thread = "failed",
                                    !.life.channel = Append(@, error),
                                    !.life.sent = @ + 1]
    /\ UNCHANGED <<renderer_vars, decoded, capi>>

\* return after a failed step: Owned(source) and Owned(port) are dropped, and the
\* sender with the closure.
Thread_return ==
    /\ hook.life.thread = "failed"
    /\ hook' = [hook EXCEPT !.life.thread = "ended",
                            !.life.sender = FALSE,
                            !.life.tap_enabled = FALSE,
                            !.life.source = IF @ = "created" THEN "released" ELSE @,
                            !.life.port = IF @ = "created" THEN "released" ELSE @]
    /\ UNCHANGED <<renderer_vars, decoded, capi>>

\* CFRunLoopAddSource; { sender }.send(Ok(RunLoop(event_loop))): the sender is
\* dropped with the block, the receiver is alive as Hook::new is still in recv.
Thread_send ==
    /\ hook.life.thread = "send"
    /\ hook' = [hook EXCEPT !.life.thread = "run",
                            !.life.source_added = TRUE,
                            !.life.channel = Append(@, "Ok"),
                            !.life.sent = @ + 1,
                            !.life.sender = FALSE]
    /\ UNCHANGED <<renderer_vars, decoded, capi>>

\* CFRunLoopRun() is entered.
Thread_run ==
    /\ hook.life.thread = "run"
    /\ hook' = [hook EXCEPT !.life.thread = "run_loop", !.life.ran = TRUE]
    /\ UNCHANGED <<renderer_vars, decoded, capi>>

\* CFRunLoopRun() returns: the run loop was stopped and no callback is under way.
Thread_exit ==
    /\ hook.life.thread = "run_loop"
    /\ hook.life.stopped
    /\ hook.tap.pc = "run_loop"
    /\ hook' = [hook EXCEPT !.life.thread = "cleanup"]
    /\ UNCHANGED <<renderer_vars, decoded, capi>>

\* CFRunLoopRemoveSource, CGEventTapEnable(port.0, false), then the closure ends:
\* source and port are released and the thread's State goes with its closures.
Thread_cleanup ==
    /\ hook.life.thread = "cleanup"
    /\ hook' = [hook EXCEPT !.life.thread = "ended",
                            !.life.source_added = FALSE,
                            !.life.tap_enabled = FALSE,
                            !.life.source = "released",
                            !.life.port = "released",
                            !.hotkeys = <<>>,
                            !.dropped = @ \cup {hook.hotkeys[h] : h \in DOMAIN hook.hotkeys}]
    /\ UNCHANGED <<renderer_vars, decoded, capi>>

\* recv that does not notice the thread has gone.
recv_Waiting(channel, sender) == IF channel # <<>> THEN <<Head(channel)>> ELSE <<>>

\* receiver.recv().map_err(|_| Error::ThreadStoppedUnexpectedly): the first message,
\* or the error once the sender is gone from an empty channel; it waits otherwise.
recv(channel, sender) ==
    IF channel # <<>> THEN <<Head(channel)>>
    ELSE IF ~sender THEN <<"ThreadStoppedUnexpectedly">> ELSE <<>>

\* Hook::new returns: Ok(Hook { event_loop, state }) or the error received.
Hook_new ==
    /\ hook.life.result = "none"
    /\ LET received == recv(hook.life.channel, hook.life.sender)
       IN /\ received # <<>>
          /\ hook' = [hook EXCEPT !.life.result = received[1],
                                  !.life.channel = IF @ = <<>> THEN @ ELSE Tail(@),
                                  !.life.handle = IF received[1] = "Ok" THEN "alive" ELSE @]
    /\ UNCHANGED <<renderer_vars, decoded, capi>>

\* Drop for Hook: CFRunLoopCopyCurrentMode gives a mode only while the run loop is
\* running, and only then CFRunLoopStop is called.
Hook_drop ==
    /\ hook.life.handle = "alive"
    /\ hook.app.pc = "idle"
    /\ hook' = [hook EXCEPT !.life.handle = "dropped",
                            !.life.stopped = @ \/ hook.life.thread = "run_loop"]
    /\ UNCHANGED <<renderer_vars, decoded, capi>>

\* ------------------------------------------------------------------- inputs
CallerPixel == <<Paint("caller", 0, 0, 0)>>

Narrow == Box(0, Half, Px(1), Px(1) + Half)
Line == Box(0, Px(2), Px(1), Px(2))
Dot == Box(0, 0, Half, Half)

\* Top-layer shapes: across row 0, across the last row, and wholly below the surface.
FillAbove == FillPath(1, <<Narrow>>, SolidColor(50), Transform(1, 1, 0, -Px(1)))
FillLow == FillPath(2, <<Narrow>>, SolidColor(100), Transform(1, 1, 0, Px(MaxHeight - 1)))
FillBelow == FillPath(3, <<Narrow>>, SolidColor(100), Transform(1, 1, 0, Px(MaxHeight + 2)))
FillNull == FillPath(4, <<>>, SolidColor(100), Identity)
StrokeLine == StrokePath(5, <<Line>>, Px(1), Identity)
Picture == ImageEntity(6, Transform(1, 1, 0, Px(1)))
Text == Label(7, <<Glyph(<<Dot>>, 0, Px(2), 2, <<>>), Glyph(<<>>, Px(1), Px(2), 2, <<Color(3, 100)>>)>>,
              SolidColor(100), <<Color(9, 100)>>, Identity)
\* Labels: two glyphs that overlap each other's shadows under a gradient; one glyph
\* without shadow; no glyph with an outline; a faint colour under a scaling transform.
TextPair == Label(11, <<Glyph(<<Dot>>, 0, Half, 2, <<>>), Glyph(<<Narrow>>, 0, 0, 1, <<Color(3, 100)>>)>>,
                  VerticalGradient(100, 50), <<Color(9, 80)>>, Identity)
TextPlain == Label(12, <<Glyph(<<Dot>>, 0, Px(1), 2, <<>>)>>, HorizontalGradient(100, 50), <<>>, Identity)
TextBlank == Label(13, <<Glyph(<<>>, 0, 0, 1, <<>>)>>, VerticalGradient(100, 50), <<Color(9, 100)>>, Identity)
TextFaint == Label(14, <<Glyph(<<Dot>>, 0, 0, 1, <<>>)>>, SolidColor(50), <<Color(9, 80)>>, Transform(2, 2, 0, 0))
FillBottom == FillPath(8, <<Narrow>>, VerticalGradient(100, 50), Identity)

Tops == {<<>>, <<FillAbove>>, <<FillLow>>, <<FillBelow>>}
Bottoms == {<<>>, <<FillBottom>>}
Backgrounds ==
    {NoBackground, ShaderBackground(SolidColor(100)),
     ShaderBackground(VerticalGradient(100, 50))}

Layouts == {Layout(t, b, g) : t \in Tops, b \in Bottoms, g \in Backgrounds}

\* Backgrounds of every kind.
AllBackgrounds ==
    Backgrounds \cup {ShaderBackground(HorizontalGradient(100, 50)),
                      ImageBackground(BackgroundImage(1, 100, 100, 0)),
                      ImageBackground(BackgroundImage(1, 50, 50, MaxBlur))}
BackgroundLayouts == {Layout(<<FillAbove>>, b, g) : b \in Bottoms, g \in AllBackgrounds}

\* Image backgrounds: the images 1..NumImages at blur 0..MaxBlur, at full and at
\* half brightness; and no background at all.
BackgroundImages ==
    {BackgroundImage(i, br, 100, bl) : i \in 1..NumImages, br \in {100, 50}, bl \in 0..MaxBlur}
BlurLayouts ==
    {Layout(<<>>, <<>>, g) : g \in {NoBackground} \cup {ImageBackground(img) : img \in BackgroundImages}}

HintLayouts == {Layout(t, <<>>, g) : t \in {<<>>, <<FillAbove>>}, g \in Backgrounds}
Hints == {<<>>, << <<MaxStride + 1, MaxHeight + 1>> >>}

Strides == {1, MaxStride}
Heights == {1, MaxHeight}

\* ------------------------------------------------------------ specification
Init ==
    /\ background = Pixmap_new(1, 1)
    /\ min_y = INFINITY
    /\ max_y = NEG_INFINITY
    /\ blurred_background_image = <<>>
    /\ scene = [updated |-> FALSE, bottom_layer |-> <<>>, top_layer |-> <<>>,
                background |-> <<>>, resolution |-> <<0, 0>>,
                bottom_layer_changed |-> FALSE]
    /\ image = [w |-> 1, h |-> 1, width |-> 1, owned |-> FALSE, data |-> <<CallerPixel>>]
    /\ call = Idle("new")
    /\ decoded = NotDecoded
    /\ capi = NoCapi
    /\ hook = NewHook

Next ==
    \/ \E layout \in Layouts, force_redraw \in BOOLEAN :
           Render(layout, force_redraw, <<>>)
    \/ \E stride \in Strides, height \in Heights, width \in Strides :
           SwapBuffer(stride, height, width, CallerPixel)

Spec == Init /\ [][Next]_vars

\* Frames over every kind of background, on surfaces with and without row padding.
NextBackground ==
    \/ \E layout \in BackgroundLayouts, force_redraw \in BOOLEAN :
           Render(layout, force_redraw, <<>>)
    \/ \E width \in Strides :
           SwapBuffer(MaxStride, MaxHeight, width, CallerPixel)

SpecBackground == Init /\ [][NextBackground]_vars

\* Frames whose background image, blur and brightness change from frame to frame.
NextBlur ==
    \/ \E layout \in BlurLayouts, force_redraw \in BOOLEAN :
           Render(layout, force_redraw, <<>>)
    \/ SwapBuffer(1, MaxHeight, 1, CallerPixel)

SpecBlur == Init /\ [][NextBlur]_vars

\* Frames for which the scene manager may return a resize hint.
NextHint ==
    \/ \E layout \in HintLayouts, force_redraw \in BOOLEAN, new_resolution \in Hints :
           Render(layout, force_redraw, new_resolution)
    \/ \E stride \in Strides, height \in Heights, width \in Strides :
           SwapBuffer(stride, height, width, CallerPixel)

SpecHint == Init /\ [][NextHint]_vars

\* The renderer that owns its frame buffer (Renderer::new, Renderer::render).
InitOwned ==
    /\ background = Pixmap_new(1, 1)
    /\ min_y = INFINITY
    /\ max_y = NEG_INFINITY
    /\ blurred_background_image = <<>>
    /\ scene = [updated |-> FALSE, bottom_layer |-> <<>>, top_layer |-> <<>>,
                background |-> <<>>, resolution |-> <<0, 0>>,
                bottom_layer_changed |-> FALSE]
    /\ image = [w |-> 1, h |-> 1, width |-> 1, owned |-> TRUE, data |-> Pixmap_new(1, 1).data]
    /\ call = Idle("new")
    /\ decoded = NotDecoded
    /\ capi = NoCapi
    /\ hook = NewHook

NextOwned ==
    \E layout \in Layouts, width \in Strides, height \in Heights :
        OwnedRender(layout, width, height, <<>>)

SpecOwned == InitOwned /\ [][NextOwned]_vars

\* Top layers of every kind of entity, for the bounds of the dirty span.
StrokeScaled == StrokePath(9, <<Line>>, Px(1), Transform(1, 2, 0, -Px(2)))
StrokeNull == StrokePath(10, <<>>, Px(1), Identity)
BoundsTops ==
    {<<>>, <<StrokeLine>>, <<StrokeScaled>>, <<FillNull>>, <<Picture>>, <<Text>>,
     <<FillAbove, StrokeLine>>, <<FillNull, StrokeNull, FillAbove>>,
     <<TextPair>>, <<TextPlain>>, <<TextBlank, TextPair>>, <<TextFaint>>}
BoundsLayouts ==
    {Layout(t, <<>>, g) : t \in BoundsTops,
                          g \in {NoBackground, ShaderBackground(SolidColor(100))}}

NextBounds ==
    \/ \E layout \in BoundsLayouts, force_redraw \in BOOLEAN :
           Render(layout, force_redraw, <<>>)
    \/ \E height \in Heights : SwapBuffer(MaxStride, height, MaxStride, CallerPixel)

SpecBounds == Init /\ [][NextBounds]_vars

\* Sizes with a zero in them, for both renderers: the one that borrows the caller's
\* buffer and the one that owns its frame buffer.
ZeroLayouts ==
    {Layout(t, <<>>, g) : t \in {<<>>, <<FillAbove>>},
                          g \in {NoBackground, ShaderBackground(SolidColor(100))}}
ZeroStrides == {0} \cup Strides
ZeroHeights == {0, 1}
ZeroWidths == {0, 1}

InitZero ==
    /\ background = Pixmap_new(1, 1)
    /\ min_y = INFINITY
    /\ max_y = NEG_INFINITY
    /\ blurred_background_image = <<>>
    /\ scene = [updated |-> FALSE, bottom_layer |-> <<>>, top_layer |-> <<>>,
                background |-> <<>>, resolution |-> <<0, 0>>,
                bottom_layer_changed |-> FALSE]
    /\ image \in {[w |-> 1, h |-> 1, width |-> 1, owned |-> FALSE, data |-> <<CallerPixel>>],
                   [w |-> 1, h |-> 1, width |-> 1, owned |-> TRUE, data |-> Pixmap_new(1, 1).data]}
    /\ call = Idle("new")
    /\ decoded = NotDecoded
    /\ capi = NoCapi
    /\ hook = NewHook

NextZero ==
    \/ /\ ~image.owned
       /\ \E layout \in ZeroLayouts, force_redraw \in BOOLEAN :
              Render(layout, force_redraw, <<>>)
    \/ /\ ~image.owned
       /\ \E stride \in ZeroStrides, height \in ZeroHeights, width \in ZeroWidths :
              SwapBuffer(stride, height, width, CallerPixel)
    \/ /\ image.owned
       /\ \E layout \in ZeroLayouts, width \in ZeroStrides, height \in ZeroHeights :
              OwnedRender(layout, width, height, <<>>)

SpecZero == InitZero /\ [][NextZero]_vars

\* The C API's layout parsing on every document of up to MaxDocLen bytes.
Bytes == {60, 123, 125, 255}
RECURSIVE DocumentsOfLen(_)
DocumentsOfLen(n) ==
    IF n = 0 THEN {<<>>}
    ELSE {Append(d, b) : d \in DocumentsOfLen(n - 1), b \in Bytes}
Documents == UNION {DocumentsOfLen(n) : n \in 0..MaxDocLen}
ParseFunctions ==
    {"Layout_parse_json", "Layout_parse_file_handle", "Layout_parse_original_livesplit"}

NextCapi ==
    \/ \E fn \in ParseFunctions, input \in Documents : ParseLayout(fn, input)
    \/ Layout_drop

SpecCapi == Init /\ [][NextCapi]_vars

\* Image decoding: every red and alpha byte, green running against red, blue at its
\* maximum.
Channels == 0..U8_MAX
RawPixels == {<<c, U8_MAX - c, U8_MAX, a>> : c \in Channels, a \in Channels}

InitImage ==
    /\ background = Pixmap_new(1, 1)
    /\ min_y = INFINITY
    /\ max_y = NEG_INFINITY
    /\ blurred_background_image = <<>>
    /\ scene = [updated |-> FALSE, bottom_layer |-> <<>>, top_layer |-> <<>>,
                background |-> <<>>, resolution |-> <<0, 0>>,
                bottom_layer_changed |-> FALSE]
    /\ image = [w |-> 1, h |-> 1, width |-> 1, owned |-> FALSE, data |-> <<CallerPixel>>]
    /\ call = Idle("new")
    /\ decoded \in {[stage |-> "raw", raw |-> px, pixel |-> px] : px \in RawPixels}
    /\ capi = NoCapi
    /\ hook = NewHook

NextImage == \E opaque_skip \in BOOLEAN : CreateImage(opaque_skip)

\* Hotkeys the application registers; events of known and unknown keys, of a
\* modifier key itself, repeating and not.
Hotkeys ==
    {Hotkey("KeyA", {}), Hotkey("KeyA", {"SHIFT"}), Hotkey("ShiftLeft", {})}
UnknownKey == 66
EventKeys == {0, 1, 56, UnknownKey}
EventFlagSets == {{}, {"SHIFT"}, {"SHIFT", "ALPHA_SHIFT"}, {"OPTION"}}
Events == {Event(r, k, f) : r \in {0, 1}, k \in EventKeys, f \in EventFlagSets}

NextHook ==
    \/ \E event \in Events : KeyDown(event)
    \/ callback_Lock
    \/ callback_Return
    \/ \E op \in {"register", "unregister"}, hotkey \in Hotkeys : Call(op, hotkey)
    \/ Hook_register
    \/ Hook_unregister

SpecHook == Init /\ [][NextHook]_vars

\* The Hook with callbacks that may call back into it. A callback that does not
\* returns; the event-tap thread gets the mutex once it is free, and a thread in
\* register or unregister gets it when it is free again and again (it is not
\* starved by the event-tap thread).
NextReentrant ==
    \/ NextHook
    \/ callback_Reenter

HookFairness ==
    /\ WF_vars(callback_Lock)
    /\ WF_vars(callback_Return)
    /\ SF_vars(Hook_register)
    /\ SF_vars(Hook_unregister)

SpecReentrant == Init /\ [][NextReentrant]_vars /\ HookFairness

SpecHookFair == SpecHook /\ HookFairness

\* The life of a Hook from Hook::new to after its drop, with one hotkey and presses
\* of its key. Every thread that can take a step takes it in the end; whether and
\* when the application registers or drops is up to it.
InitLife ==
    /\ background = Pixmap_new(1, 1)
    /\ min_y = INFINITY
    /\ max_y = NEG_INFINITY
    /\ blurred_background_image = <<>>
    /\ scene = [updated |-> FALSE, bottom_layer |-> <<>>, top_layer |-> <<>>,
                background |-> <<>>, resolution |-> <<0, 0>>,
                bottom_layer_changed |-> FALSE]
    /\ image = [w |-> 1, h |-> 1, width |-> 1, owned |-> FALSE, data |-> <<CallerPixel>>]
    /\ call = Idle("new")
    /\ decoded = NotDecoded
    /\ capi = NoCapi
    /\ hook = [NewHook EXCEPT !.life = Spawned]

NextLife ==
    \/ \E panics \in BOOLEAN : Thread_permission(panics)
    \/ \E ok \in BOOLEAN : Thread_create(ok)
    \/ Thread_return
    \/ Thread_send
    \/ Thread_run
    \/ Thread_exit
    \/ Thread_cleanup
    \/ Hook_new
    \/ Hook_drop
    \/ \E r \in {0, 1} : KeyDown(Event(r, 0, {}))
    \/ callback_Lock
    \/ callback_Return
    \/ \E op \in {"register", "unregister"} : Call(op, Hotkey("KeyA", {}))
    \/ Hook_register
    \/ Hook_unregister

LifeFairness ==
    /\ WF_vars(\E panics \in BOOLEAN : Thread_permission(panics))
    /\ WF_vars(\E ok \in BOOLEAN : Thread_create(ok))
    /\ WF_vars(Thread_return)
    /\ WF_vars(Thread_send)
    /\ WF_vars(Thread_run)
    /\ WF_vars(Thread_exit)
    /\ WF_vars(Thread_cleanup)
    /\ WF_vars(Hook_new)
    /\ HookFairness

SpecLife == InitLife /\ [][NextLife]_vars /\ LifeFairness

\* try_resolve with every KeyCode of the callback's table and two it does not have.
KeyCodes == {KeyTable[k] : k \in DOMAIN KeyTable} \cup {"Fn", "BrowserBack"}

NextResolve ==
    \E key_code \in KeyCodes, keyboard \in BOOLEAN, len \in 0..2, utf16 \in BOOLEAN :
        Hook_try_resolve(key_code, keyboard, len, utf16)

SpecResolve == Init /\ [][NextResolve]_vars

\* Key-down events of the eight modifier keys and of A under every set of the four
\* flags the callback reads, with the left shift key registered on its own.
ModifierKeys == {0, 54, 55, 56, 58, 59, 60, 61, 62}
ModifierEvents ==
    {Event(0, k, f) : k \in ModifierKeys, f \in SUBSET {"SHIFT", "CONTROL", "OPTION", "COMMAND"}}

NextModifiers ==
    \/ \E event \in ModifierEvents : KeyDown(event)
    \/ callback_Lock
    \/ callback_Return
    \/ Call("register", Hotkey("ShiftLeft", {}))
    \/ Hook_register

SpecModifiers == Init /\ [][NextModifiers]_vars

SpecImage == InitImage /\ [][NextImage]_vars
\* ------------------------------------------------------------------- claims
Rendered == call.kind = "render"
Returned(c) == c.kind \in {"render", "panicked"}

Pixels(pixmap) == 1..Len(pixmap.data)

\* The top-layer paints of the current scene at pixel p of the frame buffer.
TopPaints(p) == LayerPaints(scene.top_layer, Row(p, image.w), Col(p, image.w))

\* The bottom-layer paints of the current scene at pixel p of the background.
BottomPaints(p) == LayerPaints(scene.bottom_layer, Row(p, background.w), Col(p, background.w))

IsPrefix(s, t) == Len(s) <= Len(t) /\ SubSeq(t, 1, Len(s)) = s
IsSuffix(s, t) == Len(s) <= Len(t) /\ SubSeq(t, Len(t) - Len(s) + 1, Len(t)) = s

\* Row r lies strictly outside the rows of [lo - 1, hi + 2].
OutsideSpan(r, lo, hi) == Px(r + 1) <= lo - Px(1) \/ Px(r) > hi + Px(2)

IsBlurred(bg) == bg # <<>> /\ bg[1].kind = "Image" /\ bg[1].image.blur # 0

\* C1: rendering the same layout again at the same resolution into the same buffer,
\* with force_redraw = false, leaves the output buffer byte-identical to what the
\* first of the two calls left in it.
C1_Idempotent ==
    [][(/\ call.kind = "render"
        /\ Returned(call')
        /\ ~call'.force_redraw
        /\ SameFrame(scene, scene'))
       => image' = image]_vars

C1_Witness ==
    /\ Rendered /\ call.repeated
    /\ call.copy.kind = "partial" /\ call.copy.start < call.copy.end
    /\ \E p \in Pixels(image) : TopPaints(p) # <<>>

\* C2 as claimed: in every render call in which the bottom layer did not change,
\* forced or not, the pixels of the rows strictly outside the merged span keep the
\* bytes of the previous frame's output in that buffer.
C2_Original ==
    [][(/\ call.kind = "render"
        /\ call'.kind = "render"
        /\ ~scene'.bottom_layer_changed)
       => \A p \in Pixels(image) :
              OutsideSpan(Row(p, image.w), Min(min_y, min_y'), Max(max_y, max_y'))
              => image'.data[p] = image.data[p]]_vars

\* C2 as amended: in every render call with force_redraw = false in which the bottom
\* layer did not change, the pixels of the rows strictly outside the merged span
\* [min_y - 1, max_y + 2] keep the bytes the buffer held before the call.
C2_DirtyRegion ==
    [][(/\ Returned(call')
        /\ ~call'.force_redraw
        /\ ~scene'.bottom_layer_changed)
       => \A p \in Pixels(image) :
              OutsideSpan(Row(p, image.w), Min(min_y, min_y'), Max(max_y, max_y'))
              => image'.data[p] = image.data[p]]_vars

C2_Witness ==
    /\ Rendered /\ ~call.force_redraw /\ ~scene.bottom_layer_changed
    /\ call.copy.kind = "partial" /\ call.copy.start < call.copy.end
    /\ \E p \in Pixels(image) : image.data[p] = CallerPixel
    /\ \E p \in Pixels(image) : image.data[p] # CallerPixel

\* C3: every render call made with a buffer of exactly 4 * stride * height bytes
\* returns normally, whatever the layers contain.
C3_NeverAborts == call.kind # "panicked"

\* C4: a render call that finds the background surface at the target stride and
\* height and whose scene reports bottom_layer_changed = false leaves the cached
\* background surface and the blur cache unchanged, whatever the top layer and
\* force_redraw are.
C4_BackgroundUntouched ==
    [][(/\ Returned(call')
        /\ image.w = background.w /\ image.h = background.h
        /\ ~scene'.bottom_layer_changed)
       => /\ background' = background
          /\ blurred_background_image' = blurred_background_image]_vars

C4_Witness ==
    /\ Rendered /\ ~call.reallocated /\ ~scene.bottom_layer_changed
    /\ call.force_redraw
    /\ \E p \in Pixels(image) : TopPaints(p) # <<>>
    /\ \E p \in Pixels(background) : background.data[p] # <<>>

\* The fill of the current frame, as it is painted where the fill reaches.
FrameFill ==
    FilledPixel(scene.background, blurred_background_image, <<>>, 0, 0,
                scene.resolution[1], scene.resolution[2])

\* Pixel p of the background lies in the area the current frame's fill covers.
InFillArea(p) ==
    \/ scene.background = <<>>
    \/ /\ scene.background # <<>>
       /\ LET b == scene.background[1]
              r == Row(p, background.w)
              c == Col(p, background.w)
          IN CASE b.kind = "Shader" /\ b.shader.kind = "SolidColor" -> TRUE
               [] b.kind = "Shader" /\ b.shader.kind # "SolidColor" ->
                      c < scene.resolution[1] /\ r < scene.resolution[2]
               [] b.kind = "Image" -> Covers(TransformBox(b.transform, rectangle), r, c)

\* C5 as claimed: in a render call whose scene reports bottom_layer_changed = true the
\* whole cached background surface is first overwritten by the fill, then the bottom
\* layer is painted over it, and only then is it copied to the output buffer.
C5_Original ==
    (Rendered /\ scene.bottom_layer_changed)
    => \A p \in Pixels(background) :
           /\ background.data[p] = FrameFill \o BottomPaints(p)
           /\ IsPrefix(background.data[p], image.data[p])

\* C5 as amended: the fill overwrites the area it covers (the whole surface for a
\* solid colour or no background, the width x height viewport for a gradient, the
\* transformed unit rectangle for an image); the pixels outside it, the row padding
\* of a surface with stride > width, keep what they held; then the bottom layer is
\* painted over the surface in order, and only then is it copied to the output.
C5_RepaintOrder ==
    (Rendered /\ scene.bottom_layer_changed)
    => \A p \in Pixels(background) :
           /\ InFillArea(p) => background.data[p] = FrameFill \o BottomPaints(p)
           /\ IsSuffix(BottomPaints(p), background.data[p])
           /\ IsPrefix(background.data[p], image.data[p])

C5_Witness ==
    /\ Rendered /\ scene.bottom_layer_changed
    /\ scene.background # <<>> /\ scene.background[1].kind = "Image"
    /\ \E p \in Pixels(background) : BottomPaints(p) # <<>> /\ InFillArea(p)
    /\ \E p \in Pixels(background) : ~InFillArea(p) /\ background.data[p] # <<>>

\* C6: after a render call with force_redraw = true or bottom_layer_changed = true
\* every pixel of the output buffer is the background surface's pixel with the top
\* layer painted over it: the whole surface was copied, whatever the dirty span, and
\* nothing the caller had put into the buffer is left.
C6_FullCopy ==
    (Rendered /\ (call.force_redraw \/ scene.bottom_layer_changed))
    => /\ Len(image.data) = Len(background.data)
       /\ \A p \in Pixels(image) :
              /\ image.data[p] = background.data[p] \o TopPaints(p)
              /\ \A i \in 1..Len(image.data[p]) : image.data[p][i].tag # "caller"

C6_Witness ==
    /\ Rendered /\ call.force_redraw /\ ~scene.bottom_layer_changed
    /\ scene.top_layer = <<>>
    /\ Len(image.data) > 1

\* C7: the byte range of a partial copy lies in the buffer, both ends clamped:
\* 0 <= start <= end <= 4 * stride * height, for every span.
C7_RangeClamped ==
    call.copy.kind = "partial"
    => /\ 0 <= call.copy.start
       /\ call.copy.start <= call.copy.end
       /\ call.copy.end <= BYTES_PER_PIXEL * image.w * image.h

\* C8: render returns exactly what update_scene returned for that call, and the
\* background surface and the scene are sized from the caller's stride, width and
\* height alone, in that call and in every later one.
C8_HintVerbatim ==
    Rendered
    => /\ call.ret = call.new_resolution
       /\ background.w = image.w /\ background.h = image.h
       /\ Len(background.data) = image.w * image.h
       /\ Len(image.data) = image.w * image.h
       /\ scene.resolution = <<image.width, image.h>>

C8_Witness ==
    /\ Rendered
    /\ call.ret # <<>>
    /\ call.ret[1] # <<image.width, image.h>>
    /\ call.reallocated

\* C9: the blurred image is computed only for a background image with non-zero blur
\* whose (image identity, blur amount) differs from the cached entry's (or when
\* there is no cached entry); a frame that changes only brightness or opacity
\* reuses the cached blurred image.  The renderer does not keep to it.
C9_RecomputeOnlyOnKeyChange ==
    [][(Returned(call') /\ call'.recomputed \in {"computed", "replaced"})
       => /\ IsBlurred(scene'.background)
          /\ \/ blurred_background_image = <<>>
             \/ blurred_background_image[1].key.image # scene'.background[1].image.image
             \/ blurred_background_image[1].key.blur # scene'.background[1].image.blur]_vars

\* C10: after a render call whose background is a blurred image the blur cache holds
\* the entry of the current (image identity, blur amount), computed from them; and a
\* call that repaints the background paints it from that pixmap.
C10_CacheFollowsKey ==
    (Rendered /\ IsBlurred(scene.background))
    => /\ blurred_background_image # <<>>
       /\ LET img == scene.background[1].image
              entry == blurred_background_image[1]
          IN /\ entry.key.image = img.image
             /\ entry.key.blur = img.blur
             /\ entry.pixmap = PixmapOf(img.image, img.blur)
             /\ scene.bottom_layer_changed
                => \A p \in Pixels(background) :
                       InFillArea(p)
                       => /\ background.data[p] # <<>>
                          /\ background.data[p][1]
                                 = Paint("bg_image", img.image, img.blur, img.opacity)

C10_Witness ==
    /\ Rendered /\ call.recomputed = "replaced"
    /\ IsBlurred(scene.background)
    /\ scene.bottom_layer_changed
\* C11: whenever the background of the last rendered scene is not an image with
\* non-zero blur (no background, a shader, an image with blur = 0), the blur cache is
\* empty: no blurred pixmap outlives a frame whose background is not a blurred image.
C11_CacheCleared ==
    ~IsBlurred(scene.background) => blurred_background_image = <<>>

C11_Witness ==
    /\ Rendered /\ call.recomputed = "cleared"
    /\ ~IsBlurred(scene.background)
    /\ scene.background # <<>>
\* C12: for every decoded pixel (r, g, b, a) create_image stores
\* (floor(r*a/255), floor(g*a/255), floor(b*a/255), a); the product fits the 16-bit
\* intermediate; each stored colour channel is <= a; and a pixel with a = 255 keeps
\* its RGB channels, with and without the opaque-pixel skip.
C12_Premultiplied ==
    decoded.stage = "stored"
    => LET a == decoded.raw[4]
       IN /\ decoded.pixel[4] = a
          /\ \A i \in 1..3 :
                 /\ decoded.raw[i] * a < U16_MODULUS
                 /\ decoded.pixel[i] = (decoded.raw[i] * a) \div 255
                 /\ decoded.pixel[i] <= a
          /\ a = 255 => decoded.pixel = decoded.raw

C12_Witness ==
    /\ decoded.stage = "stored"
    /\ decoded.raw = <<200, 55, 255, 128>>
    /\ decoded.pixel = <<100, 27, 128, 128>>
C14_Original ==
    Returned(call)
    => /\ (0 \in {call.size[1], call.size[2], call.size[3]}) => call.kind = "panicked"
       /\ (0 \notin {call.size[1], call.size[2], call.size[3]})
          => call.panic \notin {"from_bytes", "alloc"}

\* C14 as amended: a render call given zero stride or zero height (for the renderer
\* that owns its frame buffer, whose stride is the width: zero width or zero height)
\* panics on wrapping or allocating the buffer and returns no frame; a call with
\* non-zero stride and height never fails there, whatever the width.
C14_ZeroArea ==
    Returned(call)
    => /\ (call.size[3] = 0 \/ call.size[2] = 0)
          => call.kind = "panicked" /\ call.panic \in {"from_bytes", "alloc"}
       /\ (call.size[3] # 0 /\ call.size[2] # 0)
          => call.panic \notin {"from_bytes", "alloc"}
       /\ image.owned => call.size[1] = call.size[3]

C14_Witness ==
    /\ call.kind = "panicked" /\ call.panic = "from_bytes"
    /\ call.size[3] # 0 /\ call.size[2] = 0
    /\ scene.updated
\* C15: each of Layout_parse_json, Layout_parse_file_handle and
\* Layout_parse_original_livesplit returns a non-NULL layout exactly when its input
\* parses, a complete layout of that input, and NULL otherwise; the last one returns
\* NULL for bytes that are not valid UTF-8.
C15_ParseOrNull ==
    capi.fn \in ParseFunctions
    => LET json == capi.fn # "Layout_parse_original_livesplit"
           parses == IF json THEN from_json(capi.input).ok
                     ELSE from_utf8(capi.input).ok /\ parse(capi.input).ok
       IN /\ capi.result # None <=> parses
          /\ parses => capi.result =
                 IF json THEN Some(from_settings(from_json(capi.input).value))
                 ELSE Some(parse(capi.input).value)
          /\ (~json /\ ~from_utf8(capi.input).ok) => capi.result = None

C15_Witness ==
    /\ capi.fn = "Layout_parse_original_livesplit"
    /\ capi.input = <<60, 255>>
    /\ capi.result = None
    /\ capi.owned > 0
\* C16: a render call that replaces the background surface, because the stride or the
\* height differs from the cached surface's, repaints the background (fill and bottom
\* layer) into the new surface in that same call, so a never-painted surface is not
\* copied to the output, also when only the stride changed.  The renderer does not
\* keep to it.
C16_ReallocationRepaints ==
    (Rendered /\ call.reallocated)
    => \A p \in Pixels(background) :
           InFillArea(p) => background.data[p] = FrameFill \o BottomPaints(p)
\* The byte range the partial copy takes for a merged span on a buffer.
SpanRange(span, stride, height) ==
    [kind |-> "partial",
     start |-> BYTES_PER_PIXEL * stride * AsUsize(span[1] - Px(1)),
     end |-> BYTES_PER_PIXEL * stride * Min(AsUsize(span[2] + Px(2)), height)]

\* C17: in every render call the span used for the partial copy is
\* [min(prev.min, cur.min), max(prev.max, cur.max)], cur being the top-layer span of
\* this call and prev the top-layer span computed in the call before (its own span,
\* not the one merged there), the empty range (+inf, -inf) on a new renderer; after the
\* call the stored span is cur, in every branch.
C17_SpanMerge ==
    /\ [](call.kind = "new" => <<min_y, max_y>> = <<INFINITY, NEG_INFINITY>>)
    /\ []((Returned(call) /\ call.panic # "from_bytes")
          => <<min_y, max_y>> = calculate_bounds(scene.top_layer))
    /\ [][(Returned(call') /\ call'.copy.kind = "partial")
          => LET cur == calculate_bounds(scene'.top_layer)
                 merged == <<Min(min_y, cur[1]), Max(max_y, cur[2])>>
             IN /\ merged[1] <= merged[2]
                /\ call'.copy = SpanRange(merged, image'.w, image'.h)]_vars

C17_Witness ==
    /\ Rendered /\ call.copy.kind = "partial"
    /\ scene.top_layer = <<FillAbove>>
    /\ call.copy.end > BYTES_PER_PIXEL * image.w * Min(AsUsize(max_y + Px(2)), image.h)
\* The entity contributes to the span: it has a path, or is an image.
HasBounds(e) ==
    \/ e.kind = "Image"
    \/ e.path # <<>>
    \/ \E i \in 1..Len(e.glyphs) : e.glyphs[i].path # <<>>

EmptySpan == <<INFINITY, NEG_INFINITY>>

\* C18 as claimed: the stored span returns to the empty range only in a render call
\* that resizes the surface or has force_redraw = true; no other call clears it.
C18_Original ==
    [][(/\ Returned(call')
        /\ <<min_y, max_y>> # EmptySpan
        /\ <<min_y', max_y'>> = EmptySpan)
       => (call'.force_redraw \/ call'.reallocated)]_vars

\* C18 as amended: the stored span is replaced in every render call by the span of that
\* call's top layer; after a call it is the empty range exactly when no entity of that
\* call's top layer has bounds (an empty top layer, for one), whether or not the call
\* resized the surface or was forced.
C18_SpanFollowsTopLayer ==
    (Returned(call) /\ call.panic # "from_bytes")
    => (<<min_y, max_y>> = EmptySpan
        <=> \A i \in 1..Len(scene.top_layer) : ~HasBounds(scene.top_layer[i]))

C18_Witness ==
    /\ Rendered /\ ~call.force_redraw /\ ~call.reallocated
    /\ <<min_y, max_y>> = EmptySpan
    /\ call.copy.kind = "partial"
BackgroundTags == {"bg_solid", "bg_vertical", "bg_horizontal", "bg_image", "modulate"}
EntityTags == {"fill", "stroke", "image", "glyph", "shadow"}
LayerIds(layer) == {layer[i].id : i \in 1..Len(layer)}
BottomIds == UNION {LayerIds(layer) : layer \in Bottoms}

Paints(pixel) == {pixel[i] : i \in 1..Len(pixel)}

\* C19 as claimed: the cached background surface holds nothing but the background fill
\* and the bottom-layer entities of the most recent frame that repainted it.
C19_Original ==
    \A p \in Pixels(background) :
        Paints(background.data[p]) \subseteq Paints(FrameFill \o BottomPaints(p))

\* C19 as amended: every paint in the cached background surface is a background fill
\* or a bottom-layer entity, never a top-layer entity; over the area the fill covers the
\* surface holds exactly the fill and bottom layer of the most recent frame that
\* repainted it (or nothing, if the surface was replaced since), while padding pixels
\* outside that area may keep fills and bottom layers of earlier frames; and a render
\* call leaves in every pixel of the output either what it held or the background
\* surface's pixel, with only the top layer painted over it.
C19_LayerSeparation ==
    /\ [](\A p \in Pixels(background) :
            /\ \A q \in Paints(background.data[p]) :
                   \/ q.tag \in BackgroundTags
                   \/ q.tag \in EntityTags /\ q.id \in BottomIds
            /\ InFillArea(p)
               => background.data[p] \in {<<>>, FrameFill \o BottomPaints(p)})
    /\ [][call'.kind = "render"
          => \A p \in Pixels(image) :
                 LET top == LayerPaints(scene'.top_layer, Row(p, image.w), Col(p, image.w))
                 IN image'.data[p] \in {image.data[p] \o top, background'.data[p] \o top}]_vars

C19_Witness ==
    /\ Rendered
    /\ \E p \in Pixels(background) :
           /\ TopPaints(p) # <<>> /\ BottomPaints(p) # <<>>
           /\ image.data[p] = background.data[p] \o TopPaints(p)
    /\ \E p \in Pixels(background) :
           ~InFillArea(p) /\ ~(Paints(background.data[p]) \subseteq Paints(FrameFill))
\* C20: for a StrokePath entity with stroke width w and transform T, calculate_bounds
\* extends the span to [T.y(top) - r, T.y(bottom) + r] with r = T.scale_y * w / 2.
\* The renderer does not keep to it.
C20_StrokeRadius ==
    (/\ Returned(call) /\ call.panic # "from_bytes"
     /\ Len(scene.top_layer) = 1
     /\ scene.top_layer[1].kind = "StrokePath"
     /\ scene.top_layer[1].path # <<>>)
    => LET e == scene.top_layer[1]
           r == (e.transform.scale_y * e.width) \div 2
       IN /\ min_y = transform_y(e.transform, e.path[1].top) - r
          /\ max_y = transform_y(e.transform, e.path[1].bottom) + r
\* ---------------------------------------------------------------------- C21
\* A FillPath or StrokePath whose path is None.
IsNullPath(e) == e.kind \in {"FillPath", "StrokePath"} /\ e.path = <<>>

\* The layer without its null-path entities.
WithoutNullPaths(layer) == SelectSeq(layer, LAMBDA e : ~IsNullPath(e))

\* The layer with the glyphs that have no outline taken out of its labels.
WithoutBlankGlyphs(layer) ==
    [i \in 1..Len(layer) |->
        IF layer[i].kind = "Label"
        THEN [layer[i] EXCEPT !.glyphs = SelectSeq(@, LAMBDA glyph : glyph.path # <<>>)]
        ELSE layer[i]]

\* The paint comes from a null-path entity or from a glyph without an outline.
FromNothing(paint, layer) ==
    \E i \in 1..Len(layer) :
        /\ layer[i].id = paint.id
        /\ \/ IsNullPath(layer[i])
           \/ /\ layer[i].kind = "Label"
              /\ paint.a \in 1..Len(layer[i].glyphs)
              /\ layer[i].glyphs[paint.a].path = <<>>

\* C21: null paths are silent no-ops. After every frame the stored span is the one
\* of the top layer without its null-path entities and without the glyphs that have
\* no outline; every pixel of the frame ends with exactly the paints of the
\* remaining entities, in order, and holds no paint of a null path or blank glyph;
\* and a frame aborts in the copy only if it would have aborted without them.
C21_NullPathsSkipped ==
    /\ [](Rendered =>
            /\ <<min_y, max_y>> =
                   calculate_bounds(WithoutBlankGlyphs(WithoutNullPaths(scene.top_layer)))
            /\ \A p \in Pixels(image) :
                   /\ IsSuffix(LayerPaints(WithoutNullPaths(scene.top_layer),
                                           Row(p, image.w), Col(p, image.w)),
                               image.data[p])
                   /\ \A i \in 1..Len(image.data[p]) :
                          ~FromNothing(image.data[p][i], scene.top_layer))
    /\ [][call'.panic = "slice" =>
            SlicePanics(
                CopyRange(call'.force_redraw, scene'.bottom_layer_changed,
                          MergedSpan(min_y, max_y,
                              calculate_bounds(
                                  WithoutBlankGlyphs(WithoutNullPaths(scene'.top_layer)))),
                          image'.w, image'.h),
                BYTES_PER_PIXEL * Len(image'.data))]_vars

\* A frame whose top layer holds two null paths ahead of a fill that was painted.
C21_Witness ==
    /\ Rendered
    /\ scene.top_layer = <<FillNull, StrokeNull, FillAbove>>
    /\ \E p \in Pixels(image) :
           /\ image.data[p] # <<>>
           /\ image.data[p][Len(image.data[p])] = Paint("fill", FillAbove.id, 0, 0)
    /\ <<min_y, max_y>> = calculate_bounds(<<FillAbove>>)
\* ---------------------------------------------------------------------- C22
Labels(layer) == {layer[i] : i \in {j \in 1..Len(layer) : layer[j].kind = "Label"}}

\* The positions in a pixel of the paints a label's pass left there.
PassPositions(pixel, e, tag) ==
    {i \in 1..Len(pixel) : pixel[i].tag = tag /\ pixel[i].id = e.id}

\* Where the shadow of a glyph falls: the glyph's own place moved by the shadow
\* offset in the label's coordinates.
ShadowBox(e, glyph) ==
    LET box == TransformBox(GlyphTransform(e.transform, glyph), glyph.path[1])
        dx == e.transform.scale_x * SHADOW_OFFSET
        dy == e.transform.scale_y * SHADOW_OFFSET
    IN Box(box.left + dx, box.top + dy, box.right + dx, box.bottom + dy)

\* The y extents a label's glyphs reach, with their shadows when it has a shadow colour.
LabelExtents(e) ==
    UNION {{transform_y(GlyphTransform(e.transform, e.glyphs[n]), y) + d :
                y \in {e.glyphs[n].path[1].top, e.glyphs[n].path[1].bottom},
                d \in IF e.shadow = <<>> THEN {0} ELSE {0, e.transform.scale_y * SHADOW_OFFSET}} :
           n \in {m \in 1..Len(e.glyphs) : e.glyphs[m].path # <<>>}}

\* C22: the shadow pass of a label comes first. In every pixel of a frame the paints
\* the top layer left are the last ones; every shadow paint of a label lies before
\* every glyph paint of that label; a glyph's shadow is painted exactly where the
\* glyph, moved by SHADOW_OFFSET in the label's coordinates, falls; a label without
\* shadow colour leaves no shadow paint; and the stored span of a frame whose top
\* layer is one label reaches the shadows' extents exactly when it has a shadow colour.
C22_ShadowPassFirst ==
    Rendered =>
        /\ \A p \in Pixels(image) :
               /\ IsSuffix(TopPaints(p), image.data[p])
               /\ \A e \in Labels(scene.top_layer) :
                      /\ \A i \in PassPositions(TopPaints(p), e, "shadow"),
                            j \in PassPositions(TopPaints(p), e, "glyph") : i < j
                      /\ e.shadow = <<>> => PassPositions(TopPaints(p), e, "shadow") = {}
                      /\ e.shadow # <<>> =>
                             \A n \in 1..Len(e.glyphs) :
                                 (\E i \in PassPositions(TopPaints(p), e, "shadow") :
                                      TopPaints(p)[i].a = n)
                                 <=> /\ e.glyphs[n].path # <<>>
                                     /\ Covers(ShadowBox(e, e.glyphs[n]),
                                               Row(p, image.w), Col(p, image.w))
        /\ \A e \in Labels(scene.top_layer) :
               scene.top_layer = <<e>> /\ LabelExtents(e) # {} =>
                   /\ \A y \in LabelExtents(e) : min_y <= y /\ y <= max_y
                   /\ min_y \in LabelExtents(e) /\ max_y \in LabelExtents(e)

\* A pixel in which the shadow of the label's second glyph lies under its first glyph.
C22_Witness ==
    /\ Rendered
    /\ scene.top_layer = <<TextPair>>
    /\ \E p \in Pixels(image) :
           \E i, j \in 1..Len(image.data[p]) :
               /\ i < j
               /\ image.data[p][i].tag = "shadow" /\ image.data[p][i].a = 2
               /\ image.data[p][j].tag = "glyph" /\ image.data[p][j].a = 1
    /\ max_y > calculate_bounds(<<[TextPair EXCEPT !.shadow = <<>>]>>)[2]
\* ---------------------------------------------------------------------- C23
\* C23: the colours of a label's two passes. In every frame a glyph paint carries the
\* glyph's own colour when the glyph has one and the label's converted shader
\* otherwise; a shadow paint carries the shadow colour, whatever the glyph's own
\* colour, with its alpha multiplied by the alpha of the label's solid colour or by
\* the mean of the alphas of the two gradient stops.
C23_LabelColours ==
    Rendered =>
        \A p \in Pixels(image) : \A e \in Labels(scene.top_layer) :
            \A i \in 1..Len(TopPaints(p)) :
                LET paint == TopPaints(p)[i]
                    glyph == e.glyphs[paint.a]
                    alpha == IF e.shader.kind = "SolidColor" THEN e.shader.a1
                             ELSE (e.shader.a1 + e.shader.a2) \div 2
                IN /\ paint.id = e.id /\ paint.tag = "glyph" =>
                          paint.shader = IF glyph.color # <<>>
                                         THEN [kind |-> "SolidColor", color |-> glyph.color[1]]
                                         ELSE LabelPaint(e).shader[1]
                   /\ paint.id = e.id /\ paint.tag = "shadow" =>
                          paint.shader = [kind |-> "SolidColor",
                                          color |-> Color(e.shadow[1].rgb,
                                                          (e.shadow[1].a * alpha) \div 100)]

\* A frame with a gradient label: the shadow of the glyph that has its own colour is
\* in the shadow colour at the mean alpha, that glyph is in its own colour, and the
\* other glyph is in the label's gradient.
C23_Witness ==
    /\ Rendered
    /\ scene.top_layer = <<TextPair>>
    /\ \E p \in Pixels(image) :
           \E i, j, k \in 1..Len(image.data[p]) :
               /\ image.data[p][i].tag = "shadow" /\ image.data[p][i].a = 2
               /\ image.data[p][i].shader.color = Color(9, 60)
               /\ image.data[p][j].tag = "glyph" /\ image.data[p][j].a = 2
               /\ image.data[p][j].shader.color = Color(3, 100)
               /\ image.data[p][k].tag = "glyph" /\ image.data[p][k].a = 1
               /\ image.data[p][k].shader.kind = "LinearGradient"
\* ---------------------------------------------------------------------- C24
\* The glyphs of a label that have an outline.
Outlined(e) == {n \in 1..Len(e.glyphs) : e.glyphs[n].path # <<>>}

Least(S) == CHOOSE v \in S : \A w \in S : v <= w
Greatest(S) == CHOOSE v \in S : \A w \in S : v >= w

\* C24: the bounds of a label's gradient. For every label of every frame: a solid
\* colour is converted without calling either bounds closure; a gradient calls the
\* closure of its axis, and its two stops lie at the least top (left) and the
\* greatest bottom (right) of the paths of the glyphs that have an outline, or both
\* at 0 when no glyph has one; no frame aborts in the conversion; and the glyphs
\* without a colour of their own are painted with that shader.
C24_LabelGradientBounds ==
    /\ call.panic # "shader"
    /\ Returned(call) =>
           \A e \in Labels(scene.top_layer) :
               LET paint == LabelPaint(e)
                   tops == {e.glyphs[n].path[1].top : n \in Outlined(e)}
                   bottoms == {e.glyphs[n].path[1].bottom : n \in Outlined(e)}
                   lefts == {e.glyphs[n].path[1].left : n \in Outlined(e)}
                   rights == {e.glyphs[n].path[1].right : n \in Outlined(e)}
                   lo_y == IF Outlined(e) = {} THEN 0 ELSE Least(tops)
                   hi_y == IF Outlined(e) = {} THEN 0 ELSE Greatest(bottoms)
                   lo_x == IF Outlined(e) = {} THEN 0 ELSE Least(lefts)
                   hi_x == IF Outlined(e) = {} THEN 0 ELSE Greatest(rights)
               IN /\ paint.shader # <<>>
                  /\ e.shader.kind = "SolidColor" =>
                         /\ paint.called = "none"
                         /\ paint.shader[1].kind = "SolidColor"
                  /\ e.shader.kind = "VerticalGradient" =>
                         /\ paint.called = "calculate_top_bottom"
                         /\ LabelBounds(e.glyphs, "y") = <<lo_y, hi_y>>
                         /\ lo_y # hi_y =>
                                /\ paint.shader[1].kind = "LinearGradient"
                                /\ paint.shader[1].start = <<0, lo_y>>
                                /\ paint.shader[1].end = <<0, hi_y>>
                  /\ e.shader.kind = "HorizontalGradient" =>
                         /\ paint.called = "calculate_left_right"
                         /\ LabelBounds(e.glyphs, "x") = <<lo_x, hi_x>>
                         /\ lo_x # hi_x =>
                                /\ paint.shader[1].kind = "LinearGradient"
                                /\ paint.shader[1].start = <<lo_x, 0>>
                                /\ paint.shader[1].end = <<hi_x, 0>>
                  /\ Rendered =>
                         \A p \in Pixels(image) : \A i \in 1..Len(TopPaints(p)) :
                             /\ TopPaints(p)[i].id = e.id
                             /\ TopPaints(p)[i].tag = "glyph"
                             /\ e.glyphs[TopPaints(p)[i].a].color = <<>>
                             => TopPaints(p)[i].shader = paint.shader[1]

\* A frame with two gradient labels was rendered: one none of whose glyphs has an
\* outline, and one whose gradient spans the paths of its two glyphs.
C24_Witness ==
    /\ Rendered
    /\ scene.top_layer = <<TextBlank, TextPair>>
    /\ LabelBounds(TextBlank.glyphs, "y") = <<0, 0>>
    /\ \E p \in Pixels(image) : \E i \in 1..Len(image.data[p]) :
           /\ image.data[p][i].tag = "glyph"
           /\ image.data[p][i].shader.kind = "LinearGradient"
           /\ image.data[p][i].shader.start = <<0, Dot.top>>
           /\ image.data[p][i].shader.end = <<0, Narrow.bottom>>
\* ---------------------------------------------------------------------- C25
\* The pixels of the background layer the stretched background image falls on.
ImagePixels ==
    {p \in Pixels(background) :
        Covers(TransformBox(scene.background[1].transform, rectangle),
               Row(p, background.w), Col(p, background.w))}

\* C25: the blur cache is there when fill_background needs it. After every call that
\* repainted the background layer from an image background, the call did not abort
\* in the cache lookup; with blur # 0 the cache is non-empty, its key is the current
\* background image's key, its pixmap is the blur of the current image, and that
\* pixmap is what was painted; with blur = 0 the decoded image was painted and the
\* cache is empty.
C25_BlurCacheAvailable ==
    /\ call.panic # "blur"
    /\ Returned(call) /\ call.panic # "from_bytes" /\ scene.bottom_layer_changed
       /\ scene.background # <<>> /\ scene.background[1].kind = "Image" =>
           LET img == scene.background[1].image
           IN /\ img.blur # 0 =>
                     /\ blurred_background_image # <<>>
                     /\ blurred_background_image[1].key = img
                     /\ blurred_background_image[1].pixmap = PixmapOf(img.image, img.blur)
              /\ img.blur = 0 => blurred_background_image = <<>>
              /\ \A p \in ImagePixels :
                     background.data[p][1] =
                         Paint("bg_image", img.image, img.blur, img.opacity)

\* A frame whose blurred background image replaced another one in the cache and was
\* painted from it.
C25_Witness ==
    /\ Rendered
    /\ scene.bottom_layer_changed
    /\ IsBlurred(scene.background)
    /\ call.recomputed = "replaced"
    /\ blurred_background_image[1].key = scene.background[1].image
    /\ ImagePixels # {}
    /\ \A p \in ImagePixels :
           background.data[p][1].a = scene.background[1].image.blur
\* ---------------------------------------------------------------------- C26
\* C26: the downscale rule of the blur. Whatever is in the blur cache was computed
\* from the image and blur of its key by this rule: with sigma = BLUR_FACTOR * blur *
\* max(width, height), when 2 / sigma < 1 the pixmap has the sides
\* max(1, trunc(2 / sigma * side)) and was blurred with sigma 2, and otherwise it has
\* the image's sides and was blurred with sigma; so it is at least 1 x 1 and no
\* larger than the image in either dimension.
C26_BlurDownscale ==
    blurred_background_image # <<>> =>
        LET key == blurred_background_image[1].key
            pixmap == blurred_background_image[1].pixmap
            width == ImageSize(key.image)[1]
            height == ImageSize(key.image)[2]
            dim == IF width >= height THEN width ELSE height
            num == BLUR_FACTOR_NUM * key.blur * dim
            den == BLUR_FACTOR_DEN * MaxBlur
            side(d) == IF (2 * den * d) \div num >= 1 THEN (2 * den * d) \div num ELSE 1
        IN /\ key.blur # 0
           /\ 2 * den < num =>
                  /\ pixmap.width = side(width)
                  /\ pixmap.height = side(height)
                  /\ pixmap.sigma = <<2, 1>>
           /\ 2 * den >= num =>
                  /\ pixmap.width = width
                  /\ pixmap.height = height
                  /\ pixmap.sigma = <<num, den>>
           /\ 1 <= pixmap.width /\ pixmap.width <= width
           /\ 1 <= pixmap.height /\ pixmap.height <= height

\* The cache holds an image scaled down to a height that would have truncated to 0.
C26_Witness ==
    /\ Rendered
    /\ call.recomputed \in {"computed", "replaced"}
    /\ blurred_background_image # <<>>
    /\ ScalesDown(Sigma(blurred_background_image[1].key.image,
                        blurred_background_image[1].key.blur))
    /\ blurred_background_image[1].pixmap.height = 1
    /\ blurred_background_image[1].pixmap.width
           < ImageSize(blurred_background_image[1].key.image)[1]
\* ---------------------------------------------------------------------- C27
\* The event was a non-repeating key-down of a key the callback knows.
Dispatched(tap) ==
    /\ tap.event # <<>>
    /\ tap.event[1].autorepeat = 0
    /\ tap.event[1].key_code \in DOMAIN KeyTable

\* C27: dispatch and consumption. When the callback, for a non-repeating key-down of
\* a known key, has the registry under its lock, it enters the callback registered
\* under exactly the event's key code and modifier set if the registry holds one, and
\* no other; otherwise it returns the event. It returns null exactly when it invoked
\* a callback, which it does once per event at most.
C27_Dispatch ==
    /\ [](/\ Len(hook.tap.invoked) <= 1
          /\ hook.tap.ret = "null" => Len(hook.tap.invoked) = 1 /\ Dispatched(hook.tap)
          /\ hook.tap.ret = "event" => hook.tap.invoked = <<>>
          /\ hook.tap.pc = "callback" =>
                 /\ Dispatched(hook.tap)
                 /\ hook.tap.hotkey[1].key_code = KeyTable[hook.tap.event[1].key_code]
                 /\ hook.tap.hotkey[1] \in DOMAIN hook.hotkeys
                 /\ hook.tap.invoked = <<hook.hotkeys[hook.tap.hotkey[1]]>>)
    /\ [][/\ hook.tap.pc = "lock" /\ hook'.tap.pc # "lock" =>
                 /\ Dispatched(hook.tap)
                 /\ hook'.tap.event = hook.tap.event
                 /\ IF hook.tap.hotkey[1] \in DOMAIN hook.hotkeys
                    THEN /\ hook'.tap.pc = "callback"
                         /\ hook'.tap.invoked = <<hook.hotkeys[hook.tap.hotkey[1]]>>
                    ELSE /\ hook'.tap.pc = "run_loop"
                         /\ hook'.tap.ret = "event"
                         /\ hook'.tap.invoked = <<>>
          /\ hook.tap.pc = "callback" /\ hook'.tap.pc # "callback" =>
                 /\ hook'.tap.pc = "run_loop"
                 /\ hook'.tap.ret = "null"
                 /\ hook'.tap.invoked = hook.tap.invoked
                 /\ hook'.tap.event = hook.tap.event]_vars

\* Shift + A was consumed by the callback registered for it while the registry also
\* held a callback for A alone.
C27_Witness ==
    /\ hook.tap.pc = "run_loop"
    /\ hook.tap.ret = "null"
    /\ hook.tap.event = <<Event(0, 0, {"SHIFT"})>>
    /\ DOMAIN hook.hotkeys = {Hotkey("KeyA", {}), Hotkey("KeyA", {"SHIFT"})}
    /\ hook.tap.invoked = <<hook.hotkeys[Hotkey("KeyA", {"SHIFT"})]>>
\* ---------------------------------------------------------------------- C28
\* The registry differs from `hotkeys` in the one entry hotkey -> callback.
WithEntry(hotkeys, hotkey, callback) ==
    [h \in DOMAIN hotkeys \cup {hotkey} |-> IF h = hotkey THEN callback ELSE hotkeys[h]]

\* C28: register rejects a duplicate without side effects. A register call of a
\* hotkey the registry holds returns AlreadyRegistered, leaves the registry as it
\* was and drops the new closure; of any other hotkey it returns Ok and adds exactly
\* the entry for it. No dropped closure is in the registry or running, and no
\* closure is registered under two hotkeys.
C28_RegisterRejectsDuplicates ==
    /\ [](/\ \A h \in DOMAIN hook.hotkeys : hook.hotkeys[h] \notin hook.dropped
          /\ \A h, k \in DOMAIN hook.hotkeys : hook.hotkeys[h] = hook.hotkeys[k] => h = k
          /\ hook.tap.pc = "callback" => hook.tap.invoked[1] \notin hook.dropped)
    /\ [][hook.app.pc = "register" /\ hook'.app.pc = "idle" =>
              IF hook.app.hotkey \in DOMAIN hook.hotkeys
              THEN /\ hook'.app.result = "AlreadyRegistered"
                   /\ hook'.hotkeys = hook.hotkeys
                   /\ hook'.dropped = hook.dropped \cup {hook.app.callback}
              ELSE /\ hook'.app.result = "Ok"
                   /\ hook'.hotkeys = WithEntry(hook.hotkeys, hook.app.hotkey, hook.app.callback)
                   /\ hook'.dropped = hook.dropped]_vars

\* The second closure offered for A was refused; the first one is still registered.
C28_Witness ==
    /\ hook.app.pc = "idle"
    /\ hook.app.op = "register"
    /\ hook.app.result = "AlreadyRegistered"
    /\ hook.app.hotkey = Hotkey("KeyA", {})
    /\ hook.hotkeys[Hotkey("KeyA", {})] # hook.app.callback
    /\ hook.app.callback \in hook.dropped
\* ---------------------------------------------------------------------- C29
\* The registry without the entry of `hotkey`.
WithoutEntry(hotkeys, hotkey) == [h \in DOMAIN hotkeys \ {hotkey} |-> hotkeys[h]]

\* C29: unregister. An unregister call of a hotkey the registry does not hold
\* returns NotRegistered and leaves the registry as it was; of a hotkey it holds it
\* returns Ok, removes that entry and no other, and the Hook drops the closure. So
\* from every registry the program reaches, registering a vacant hotkey and
\* unregistering it again gives the same registry back, with the hotkey vacant again.
C29_Unregister ==
    /\ [](\A h \in Hotkeys \ DOMAIN hook.hotkeys :
              /\ Remove(Insert(hook.hotkeys, h, hook.callbacks + 1), h) = hook.hotkeys
              /\ Lookup(Remove(Insert(hook.hotkeys, h, hook.callbacks + 1), h), h) = <<>>)
    /\ [][hook.app.pc = "unregister" /\ hook'.app.pc = "idle" =>
              IF hook.app.hotkey \in DOMAIN hook.hotkeys
              THEN /\ hook'.app.result = "Ok"
                   /\ hook'.hotkeys = WithoutEntry(hook.hotkeys, hook.app.hotkey)
                   /\ hook'.dropped = hook.dropped \cup {hook.hotkeys[hook.app.hotkey]}
              ELSE /\ hook'.app.result = "NotRegistered"
                   /\ hook'.hotkeys = hook.hotkeys
                   /\ hook'.dropped = hook.dropped]_vars

\* A was unregistered while Shift + A stayed registered.
C29_Witness ==
    /\ hook.app.pc = "idle"
    /\ hook.app.op = "unregister"
    /\ hook.app.result = "Ok"
    /\ hook.app.hotkey = Hotkey("KeyA", {})
    /\ DOMAIN hook.hotkeys = {Hotkey("KeyA", {"SHIFT"})}
    /\ hook.dropped # {}
\* ---------------------------------------------------------------------- C30
\* C30: no callback after unregister. A registered callback executes only while the
\* event-tap thread holds the registry lock, and it is the closure the registry holds
\* for the hotkey of the event at that moment, never one the Hook has dropped.
\* register and unregister return only while no callback executes, and they leave the
\* event-tap thread where it is; a dropped closure stays dropped. So once unregister
\* has returned Ok its closure is not executing and is not invoked again.
C30_NoCallbackAfterUnregister ==
    /\ [](hook.tap.pc = "callback" =>
              /\ hook.lock = "tap"
              /\ Len(hook.tap.invoked) = 1
              /\ Lookup(hook.hotkeys, hook.tap.hotkey[1]) = hook.tap.invoked
              /\ hook.tap.invoked[1] \notin hook.dropped)
    /\ [](hook.lock = "tap" => hook.tap.pc = "callback")
    /\ [][/\ hook.dropped \subseteq hook'.dropped
          /\ hook.app.pc # "idle" /\ hook'.app.pc = "idle" =>
                 /\ hook.tap.pc # "callback"
                 /\ hook'.tap = hook.tap
                 /\ hook'.app.result = "Ok" /\ hook.app.op = "unregister" =>
                        /\ hook.app.hotkey \notin DOMAIN hook'.hotkeys
                        /\ hook.hotkeys[hook.app.hotkey] \in hook'.dropped]_vars

\* unregister waited for the callback of its hotkey to return, removed it, and a
\* later press of the hotkey went through without a callback.
C30_Witness ==
    /\ hook.app.pc = "idle"
    /\ hook.app.op = "unregister"
    /\ hook.app.result = "Ok"
    /\ hook.tap.pc = "run_loop"
    /\ hook.tap.hotkey = <<hook.app.hotkey>>
    /\ hook.tap.ret = "event"
    /\ hook.app.hotkey \notin DOMAIN hook.hotkeys
    /\ hook.dropped # {}
\* ---------------------------------------------------------------------- C34
\* The event is an auto-repeat or has a key code outside the callback's table.
Ignored(event) == event.autorepeat # 0 \/ event.key_code \notin DOMAIN KeyTable

\* C34: auto-repeat and unknown keys are ignored. When the callback is entered with
\* an auto-repeat event or with a key code outside its table, it returns the event
\* in that same step: no registered callback is invoked, the lock, the registry, the
\* dropped closures and the application thread stay as they are. The thread goes for
\* the lock, and a registered callback runs, only for an event that is neither.
C34_RepeatAndUnknownIgnored ==
    /\ [](hook.tap.pc \in {"lock", "callback"} \/ hook.tap.ret = "null" =>
              /\ ~Ignored(hook.tap.event[1])
              /\ Len(hook.tap.invoked) <= 1)
    /\ [][hook.tap.pc = "run_loop" /\ hook'.tap # hook.tap /\ Ignored(hook'.tap.event[1]) =>
              /\ hook'.tap.pc = "run_loop"
              /\ hook'.tap.ret = "event"
              /\ hook'.tap.invoked = <<>>
              /\ hook'.lock = hook.lock
              /\ hook'.hotkeys = hook.hotkeys
              /\ hook'.dropped = hook.dropped
              /\ hook'.app = hook.app]_vars

\* The auto-repeat of A while A is registered: the event came back.
C34_Witness ==
    /\ hook.tap.pc = "run_loop"
    /\ hook.tap.event = <<Event(1, 0, {})>>
    /\ hook.tap.ret = "event"
    /\ hook.tap.invoked = <<>>
    /\ Hotkey("KeyA", {}) \in DOMAIN hook.hotkeys
    /\ hook.lock = "none"

\* ---------------------------------------------------------------------- C35
\* C35: modifier derivation. The hotkey looked up for an event has the event's key
\* and holds SHIFT, CONTROL, ALT or META exactly when the event has the flag SHIFT,
\* CONTROL, OPTION or COMMAND and its key is not the left or right key of that
\* modifier; it holds nothing else.
C35_Modifiers ==
    hook.tap.hotkey # <<>> =>
        LET event == hook.tap.event[1]
            key == KeyTable[event.key_code]
            looked_up == hook.tap.hotkey[1]
        IN /\ looked_up.key_code = key
           /\ "SHIFT" \in looked_up.modifiers <=>
                  "SHIFT" \in event.flags /\ key \notin {"ShiftLeft", "ShiftRight"}
           /\ "CONTROL" \in looked_up.modifiers <=>
                  "CONTROL" \in event.flags /\ key \notin {"ControlLeft", "ControlRight"}
           /\ "ALT" \in looked_up.modifiers <=>
                  "OPTION" \in event.flags /\ key \notin {"AltLeft", "AltRight"}
           /\ "META" \in looked_up.modifiers <=>
                  "COMMAND" \in event.flags /\ key \notin {"MetaLeft", "MetaRight"}
           /\ looked_up.modifiers \subseteq {"SHIFT", "CONTROL", "ALT", "META"}

\* The left shift key pressed alone, with its own flag set, has run the callback
\* registered for ShiftLeft without modifiers.
C35_Witness ==
    /\ hook.tap.pc = "callback"
    /\ hook.tap.event = <<Event(0, 56, {"SHIFT"})>>
    /\ hook.tap.hotkey = <<Hotkey("ShiftLeft", {})>>
    /\ hook.tap.invoked = <<hook.hotkeys[Hotkey("ShiftLeft", {})]>>
\* ---------------------------------------------------------------------- C36
\* C36: the key-code tables agree. Every KeyCode of try_resolve's table has a
\* virtual key code that the callback's table maps back to that KeyCode, and no two
\* KeyCodes share a virtual key code. A call of try_resolve returns a String only for
\* a KeyCode of its table, and the virtual key it translated is the one the callback
\* reads back as that KeyCode.
C36_TablesAgree ==
    /\ \A k \in DOMAIN ResolveTable : KeyCodeOf(ResolveTable[k]) = <<k>>
    /\ \A k, l \in DOMAIN ResolveTable : ResolveTable[k] = ResolveTable[l] => k = l
    /\ hook.resolved # <<>> =>
           LET call_ == hook.resolved[1]
           IN /\ call_.key_code \notin DOMAIN ResolveTable => call_.result = <<>>
              /\ call_.result # <<>> =>
                     /\ call_.virtual_key # <<>>
                     /\ call_.result[1].translated = call_.virtual_key[1]
                     /\ KeyCodeOf(call_.virtual_key[1]) = <<call_.key_code>>

\* Digit5 was resolved through virtual key code 0x17.
C36_Witness ==
    /\ hook.resolved # <<>>
    /\ hook.resolved[1].key_code = "Digit5"
    /\ hook.resolved[1].virtual_key = <<23>>
    /\ hook.resolved[1].result # <<>>
    /\ KeyTable[23] = "Digit5"
\* ---------------------------------------------------------------------- C33
\* C33: no deadlock on the registry. The event-tap thread that has entered the
\* callback comes back to the run loop, and a thread that has called register or
\* unregister returns.
C33_NoDeadlock ==
    /\ hook.tap.pc # "run_loop" ~> hook.tap.pc = "run_loop"
    /\ hook.app.pc # "idle" ~> hook.app.pc = "idle"

\* The registered callback is inside a call of register or unregister of its own
\* Hook while another thread waits in unregister.
C33_Witness ==
    /\ hook.tap.pc = "relock"
    /\ hook.lock = "tap"
    /\ hook.app.pc = "unregister"
\* ---------------------------------------------------------------------- C32
\* The errors of the three start-up steps.
StepErrors ==
    {"CouldntCreateEventTap", "CouldntCreateRunLoopSource", "CouldntGetCurrentRunLoop"}

\* Nothing the thread created is still held.
Released ==
    /\ hook.life.port \in {"none", "released"}
    /\ hook.life.source \in {"none", "released"}
    /\ ~hook.life.tap_enabled
    /\ ~hook.life.source_added

\* C32: the start-up handshake. Hook::new returns in the end. When it returns Ok the
\* thread has created the event tap and the run-loop source and has added the source
\* to its run loop. When it returns the error of a step, the steps before it had
\* succeeded and none after it was taken, the thread never runs the run loop and it
\* ends with everything it created released. It returns ThreadStoppedUnexpectedly
\* exactly when the thread has ended without sending. The thread sends at most once.
C32_Handshake ==
    /\ <>(hook.life.result # "none")
    /\ [](hook.life.sent <= 1 /\ Len(hook.life.channel) <= 1)
    /\ [](hook.life.result \notin {"none", "Ok"} =>
              /\ hook.life.thread \in {"failed", "ended"}
              /\ ~hook.life.ran
              /\ hook.life.handle = "none")
    /\ (hook.life.result \notin {"none", "Ok"}) ~> (hook.life.thread = "ended" /\ Released)
    /\ [][hook.life.result = "none" /\ hook'.life.result # "none" =>
              /\ hook'.life.result \in StepErrors \cup {"Ok", "ThreadStoppedUnexpectedly"}
              /\ hook'.life.result = "Ok" =>
                     /\ hook.life.port = "created" /\ hook.life.tap_enabled
                     /\ hook.life.source = "created"
                     /\ hook.life.source_added
                     /\ hook.life.thread \in {"run", "run_loop"}
                     /\ hook'.life.handle = "alive"
              /\ hook'.life.result = "CouldntCreateEventTap" =>
                     hook.life.port = "none" /\ hook.life.source = "none"
              /\ hook'.life.result = "CouldntCreateRunLoopSource" =>
                     hook.life.port # "none" /\ hook.life.source = "none"
              /\ hook'.life.result = "CouldntGetCurrentRunLoop" =>
                     /\ hook.life.port # "none" /\ hook.life.source # "none"
                     /\ ~hook.life.source_added
              /\ hook'.life.result = "ThreadStoppedUnexpectedly" <=>
                     hook.life.sent = 0 /\ hook.life.thread = "ended"]_vars

\* Hook::new returned CouldntGetCurrentRunLoop and the thread has ended: the tap
\* and the source it had created are released.
C32_Witness ==
    /\ hook.life.result = "CouldntGetCurrentRunLoop"
    /\ hook.life.thread = "ended"
    /\ hook.life.port = "released"
    /\ hook.life.source = "released"
    /\ hook.life.sent = 1
\* ---------------------------------------------------------------------- C31
\* Once the Hook is dropped the background thread ends.
ThreadEnds == hook.life.handle = "dropped" ~> hook.life.thread = "ended"

\* C31: Hook shutdown. Once the Hook is dropped the background thread ends in the
\* end, with the run-loop source removed, the event tap disabled and both released,
\* and from the drop on no registered callback is entered.
C31_Shutdown ==
    /\ ThreadEnds
    /\ hook.life.handle = "dropped" ~> Released
    /\ [][hook.life.handle = "dropped" /\ hook'.tap.pc = "callback" =>
              hook.tap.pc = "callback"]_vars

\* The Hook was dropped before the thread entered CFRunLoopRun: the run loop runs
\* unstopped and the callback registered for A is being executed.
C31_Witness ==
    /\ hook.life.handle = "dropped"
    /\ hook.life.thread = "run_loop"
    /\ ~hook.life.stopped
    /\ hook.life.tap_enabled
    /\ hook.tap.pc = "callback"
    /\ hook.tap.hotkey = <<Hotkey("KeyA", {})>>
====
